---- MODULE Spec2Model ----
(***************************************************************************)
(* CHIP-8 emulator (lutobler/chip8-emulator), modular variant:             *)
(* src/src/emulator/chip8.h, chip8.c (the core) and main.c (keypad         *)
(* setters, option parsing, main loop).  The machine state is struct chip8 *)
(* and struct emulator; one action per entry point of the core.            *)
(***************************************************************************)
EXTENDS Integers, Sequences, FiniteSets, TLC

(* ------------------------------------------------------------------ *)
(* Hardware parameters (chip8.h)                                      *)
(* ------------------------------------------------------------------ *)
MEM_SIZE == 4096
RESERVED_MEM == 512
DISP_W == 64
DISP_H == 32
DISP_SIZE == DISP_W * DISP_H
STACK_SIZE == 16
C8K_NONE == -1

(* chip8_fontset: digits 0-F, 5 bytes each *)
chip8_fontset ==
  << 240, 144, 144, 144, 240,   32,  96,  32,  32, 112,
     240,  16, 240, 128, 240,  240,  16, 240,  16, 240,
     144, 144, 240,  16,  16,  240, 128, 240,  16, 240,
     240, 128, 240, 144, 240,  240,  16,  32,  64,  64,
     240, 144, 240, 144, 240,  240, 144, 240,  16, 240,
     240, 144, 240, 144, 144,  224, 144, 224, 144, 224,
     240, 128, 128, 128, 240,  224, 144, 144, 144, 224,
     240, 128, 240, 128, 240,  240, 128, 240, 128, 128 >>

(* ------------------------------------------------------------------ *)
(* Bounds of the model                                                *)
(* ------------------------------------------------------------------ *)
\* most setup instructions before the instruction under test, in the
\* program images of the general specification
MaxSetupLen == 1
\* emulator_cycle calls per run of the general specification
MaxCycles == 4
\* longest program image of the stack specification, in opcodes
MaxStackProgLen == 3
\* emulator_cycle calls per run of the stack specification
MaxStackCycles == 18
\* emulator_cycle calls per run of the ALU specification
MaxALUCycles == 4
\* emulator_cycle calls per run of the draw specification
MaxDrawCycles == 5
\* emulator_cycle calls per run of the timer specification
MaxTimerCycles == 4
\* largest value loaded into a timer by the timer programs
MaxTimer == 3
\* emulator_cycle calls per run of the loader specification
MaxLoadCycles == 3
\* the short program files have 0..MaxShortFile bytes
MaxShortFile == 4
\* the longest program file exceeds the largest that fits by MaxOverrun bytes
MaxOverrun == 1
\* iterations of the main loop per run of the pacing specification
MaxIters == 3
\* window events delivered per run of the pacing specification
MaxEvents == 3
\* emulator_cycle calls per run of the store/load programs
MaxStoreCycles == 6
\* emulator_cycle calls per run of the BCD programs
MaxBCDCycles == 3
\* emulator_cycle calls per run of the address-add loops
MaxAddICycles == 530
\* emulator_cycle calls a client of the engine makes on one emulator
MaxEngineCycles == 4
\* instructions per program given to the engine's client
MaxEngineProgLen == 2
\* emulator_cycle calls per run of the end-of-memory specification
MaxEndCycles == 5
\* keys 1..MaxKey are pressed and released
MaxKey == 1
\* register operands are drawn within EdgeWidth of 0, 128 and 255
EdgeWidth == 1
\* breakpoints are configured at 512 + 2*i, i in 0..MaxBrk
MaxBrk == 1
\* rand() yields the bytes 255 - i, i in 0..MaxRand
MaxRand == 1

(* ------------------------------------------------------------------ *)
(* C integer arithmetic                                               *)
(* ------------------------------------------------------------------ *)
Pow2(n) == 2 ^ n
U8(v) == v % 256
U16(v) == v % 65536
Shr(v, n) == v \div Pow2(n)
Shl(v, n) == v * Pow2(n)

RECURSIVE BitOp(_, _, _, _)
\* bitwise combination of the low w bits of a and b; f is the truth
\* table of the operator as <<f(0,0), f(0,1), f(1,0), f(1,1)>>
BitOp(f, a, b, w) ==
  IF w = 0 THEN 0
  ELSE f[2 * (a % 2) + (b % 2) + 1] + 2 * BitOp(f, a \div 2, b \div 2, w - 1)

\* every value the core combines bitwise fits in 16 bits
BitAnd(a, b) == BitOp(<<0, 0, 0, 1>>, a, b, 16)
BitOr(a, b) == BitOp(<<0, 1, 1, 1>>, a, b, 16)
BitXor(a, b) == BitOp(<<0, 1, 1, 0>>, a, b, 16)

(* ------------------------------------------------------------------ *)
(* Opcode decoder                                                     *)
(* ------------------------------------------------------------------ *)
op_x(opc) == BitAnd(Shr(opc, 8), 15)
op_y(opc) == BitAnd(Shr(opc, 4), 15)
op_kk(opc) == BitAnd(opc, 255)
op_nnn(opc) == BitAnd(opc, 4095)
op_n(opc) == BitAnd(opc, 15)
op_top(opc) == Shr(BitAnd(opc, 61440), 12)

(* ------------------------------------------------------------------ *)
(* State                                                              *)
(* ------------------------------------------------------------------ *)
VARIABLES
  memory, display, V, SP, DT, ST, PC, I, stack,        \* struct chip8
  opcode, prev_PC, keypad, last_key, key_waiting,      \* struct emulator
  brk_point, brk_point_set,
  status,      \* emulator_cycle's local: the handler's result
  ret,         \* value returned by the last emulator_cycle call
  ub,          \* an access outside an array has happened
  phase,       \* position of main: "init", "run", "halt", "exit"
  ncycles,     \* number of emulator_cycle calls made so far
  calls,       \* history: <<address, SP before>> of the CALLs not yet returned
  shown,       \* history: display[] when the last instruction was fetched
  rom,         \* the bytes of the file last given to emulator_load_program
  stored,      \* history: I, x and V[] of the last Fx55, while I and memory stay
  held,        \* the keys whose most recent event was a key-down
  loop         \* main: clock_speed, paused, and the locals of the while loop

cpuVars == <<memory, display, V, SP, DT, ST, PC, I, stack>>
keyVars == <<keypad, last_key, key_waiting>>
brkVars == <<brk_point, brk_point_set>>
vars == <<memory, display, V, SP, DT, ST, PC, I, stack,
          opcode, prev_PC, keypad, last_key, key_waiting,
          brk_point, brk_point_set, status, ret, ub, phase, ncycles,
          calls, shown, rom, stored, held, loop>>

(* ------------------------------------------------------------------ *)
(* Instruction handlers.  A handler reads the machine state (pc is    *)
(* eml->cpu.PC at its entry, already advanced) and yields the set of  *)
(* its possible outcomes; an outcome names the fields it assigns and  *)
(* the status it returns.  The set has more than one element only     *)
(* for rand() and for undefined behaviour.                            *)
(* ------------------------------------------------------------------ *)
Upd(d, name, old) == IF name \in DOMAIN d THEN d[name] ELSE old

(* The arrays memory[MEM_SIZE] and display[DISP_SIZE] are held as the    *)
(* finite map of the cells that differ from their contents after         *)
(* emulator_init (the font table and zeroes): cell a of an array m       *)
(* reads Get(m, a, <reset value>), and Put keeps the map canonical.      *)
Get(m, a, def) == IF a \in DOMAIN m THEN m[a] ELSE def

Put(m, a, v, def) ==
  IF v = def THEN [b \in DOMAIN m \ {a} |-> m[b]]
  ELSE [b \in DOMAIN m \cup {a} |-> IF b = a THEN v ELSE m[b]]

\* memory[a] after memset and the memcpy of the font table
ResetMemory(a) == IF a < Len(chip8_fontset) THEN chip8_fontset[a + 1] ELSE 0

\* mem[a], a inside the array
MemAt(mem, a) == Get(mem, a, ResetMemory(a))

\* disp[i], i inside the array
DispAt(disp, i) == Get(disp, i, 0)

\* bytes an out-of-bounds read may yield
UBBytes == {0, 255}

\* values of rand() (only the low byte reaches Vx)
RandValues == {255 - i : i \in 0..MaxRand}

\* keypad & (1 << key); the shift of an int by 31 or more is undefined
keypad_is_pressed(key) ==
  IF key < 31 THEN {BitAnd(keypad, Shl(1, key)) # 0} ELSE BOOLEAN

instr_CLS(opc, pc) ==
  {[display |-> <<>>, status |-> "EML_REDRAW"]}

\* RET that reads the return address and leaves SP where it was
instr_RET_keep_SP(opc, pc) ==
  IF SP = 0 THEN {[status |-> "EML_STACK_UNDERFL"]}
  ELSE {[PC |-> stack[SP - 1], status |-> "EML_OK"]}

\* RET that puts the PC back on itself when the stack is empty
instr_RET_rewinds(opc, pc) ==
  IF SP = 0 THEN {[PC |-> pc - 2, status |-> "EML_STACK_UNDERFL"]}
  ELSE {[PC |-> stack[SP - 1], SP |-> SP - 1, status |-> "EML_OK"]}

instr_RET(opc, pc) ==
  IF SP = 0 THEN {[status |-> "EML_STACK_UNDERFL"]}
  ELSE {[PC |-> stack[SP - 1], SP |-> SP - 1, status |-> "EML_OK"]}

instr_JP_nnn(opc, pc) == {[PC |-> op_nnn(opc), status |-> "EML_OK"]}

\* CALL whose full-stack test is one slot late
instr_CALL_nnn_late_guard(opc, pc) ==
  IF SP = STACK_SIZE + 1 THEN {[status |-> "EML_STACK_OVERFL"]}
  ELSE {[stack |-> [stack EXCEPT ![SP] = pc], SP |-> U8(SP + 1),
         PC |-> op_nnn(opc), status |-> "EML_OK"]}

instr_CALL_nnn(opc, pc) ==
  IF SP = STACK_SIZE THEN {[status |-> "EML_STACK_OVERFL"]}
  ELSE {[stack |-> [stack EXCEPT ![SP] = pc], SP |-> U8(SP + 1),
         PC |-> op_nnn(opc), status |-> "EML_OK"]}

instr_SE_Vx_kk(opc, pc) ==
  {[PC |-> IF V[op_x(opc)] = op_kk(opc) THEN U16(pc + 2) ELSE pc,
    status |-> "EML_OK"]}

instr_SNE_Vx_kk(opc, pc) ==
  {[PC |-> IF V[op_x(opc)] # op_kk(opc) THEN U16(pc + 2) ELSE pc,
    status |-> "EML_OK"]}

instr_SE_Vx_Vy(opc, pc) ==
  {[PC |-> IF V[op_x(opc)] = V[op_y(opc)] THEN U16(pc + 2) ELSE pc,
    status |-> "EML_OK"]}

instr_LD_Vx_kk(opc, pc) ==
  {[V |-> [V EXCEPT ![op_x(opc)] = op_kk(opc)], status |-> "EML_OK"]}

instr_ADD_Vx_kk(opc, pc) ==
  {[V |-> [V EXCEPT ![op_x(opc)] = U8(V[op_x(opc)] + op_kk(opc))],
    status |-> "EML_OK"]}

instr_LD_Vx_Vy(opc, pc) ==
  {[V |-> [V EXCEPT ![op_x(opc)] = V[op_y(opc)]], status |-> "EML_OK"]}

instr_OR_Vx_Vy(opc, pc) ==
  {[V |-> [V EXCEPT ![op_x(opc)] = BitOr(V[op_x(opc)], V[op_y(opc)])],
    status |-> "EML_OK"]}

instr_AND_Vx_Vy(opc, pc) ==
  {[V |-> [V EXCEPT ![op_x(opc)] = BitAnd(V[op_x(opc)], V[op_y(opc)])],
    status |-> "EML_OK"]}

instr_XOR_Vx_Vy(opc, pc) ==
  {[V |-> [V EXCEPT ![op_x(opc)] = BitXor(V[op_x(opc)], V[op_y(opc)])],
    status |-> "EML_OK"]}

\* the flag is stored first, the result second: two assignments in order
instr_ADD_Vx_Vy(opc, pc) ==
  LET s == U16(V[op_x(opc)] + V[op_y(opc)])
      V1 == [V EXCEPT ![15] = IF s > 255 THEN 1 ELSE 0]
      V2 == [V1 EXCEPT ![op_x(opc)] = BitAnd(s, 255)]
  IN {[V |-> V2, status |-> "EML_OK"]}

\* SUB whose flag is Vx >= Vy
instr_SUB_Vx_Vy_ge(opc, pc) ==
  LET V1 == [V EXCEPT ![15] = IF V[op_x(opc)] >= V[op_y(opc)] THEN 1 ELSE 0]
      V2 == [V1 EXCEPT ![op_x(opc)] = U8(V1[op_x(opc)] - V1[op_y(opc)])]
  IN {[V |-> V2, status |-> "EML_OK"]}

instr_SUB_Vx_Vy(opc, pc) ==
  LET V1 == [V EXCEPT ![15] = IF V[op_x(opc)] > V[op_y(opc)] THEN 1 ELSE 0]
      V2 == [V1 EXCEPT ![op_x(opc)] = U8(V1[op_x(opc)] - V1[op_y(opc)])]
  IN {[V |-> V2, status |-> "EML_OK"]}

instr_SHR_Vx__Vy(opc, pc) ==
  LET V1 == [V EXCEPT ![15] = BitAnd(V[op_x(opc)], 1)]
      V2 == [V1 EXCEPT ![op_x(opc)] = Shr(V1[op_x(opc)], 1)]
  IN {[V |-> V2, status |-> "EML_OK"]}

instr_SUBN_Vx_Vy(opc, pc) ==
  LET V1 == [V EXCEPT ![15] = IF V[op_x(opc)] < V[op_y(opc)] THEN 1 ELSE 0]
      V2 == [V1 EXCEPT ![op_x(opc)] = U8(V1[op_y(opc)] - V1[op_x(opc)])]
  IN {[V |-> V2, status |-> "EML_OK"]}

\* SHL that takes the flag from the shifted, truncated value
instr_SHL_Vx_Vy_flag_after(opc, pc) ==
  LET V1 == [V EXCEPT ![op_x(opc)] = U8(Shl(V[op_x(opc)], 1))]
      V2 == [V1 EXCEPT ![15] = Shr(BitAnd(V1[op_x(opc)], 128), 7)]
  IN {[V |-> V2, status |-> "EML_OK"]}

instr_SHL_Vx_Vy(opc, pc) ==
  LET V1 == [V EXCEPT ![15] = Shr(BitAnd(V[op_x(opc)], 128), 7)]
      V2 == [V1 EXCEPT ![op_x(opc)] = U8(Shl(V1[op_x(opc)], 1))]
  IN {[V |-> V2, status |-> "EML_OK"]}

instr_SNE_Vx_Vy(opc, pc) ==
  {[PC |-> IF V[op_x(opc)] # V[op_y(opc)] THEN U16(pc + 2) ELSE pc,
    status |-> "EML_OK"]}

instr_LD_I_nnn(opc, pc) == {[I |-> op_nnn(opc), status |-> "EML_OK"]}

instr_JP_V0_nnn(opc, pc) ==
  {[PC |-> U16(op_nnn(opc) + V[0]), status |-> "EML_OK"]}

instr_RND_Vx_kk(opc, pc) ==
  {[V |-> [V EXCEPT ![op_x(opc)] = U8(BitAnd(r, op_kk(opc)))],
    status |-> "EML_OK"] : r \in RandValues}

\* display index with the column wrapped at the sprite's origin only
d_idx_origin_wrap(i, j, x, y) ==
  ((i + y) % DISP_H) * DISP_W + (x % DISP_W) + j

\* display index of pixel j of sprite row i, for a sprite drawn at (x, y)
d_idx(i, j, x, y) == ((i + y) % DISP_H) * DISP_W + ((x + j) % DISP_W)

\* sprite row i shifted down to bit j, the bits above it kept
sprt_bit_unmasked(rows, i, j) == Shr(rows[i], 7 - j)

\* bit j (from the left) of sprite row i
sprt_bit(rows, i, j) == BitAnd(Shr(rows[i], 7 - j), 1)

\* m with cell a holding v; cells at their reset value are not dropped
Store(m, a, v) == (a :> v) @@ m

\* the display map with the cells that hold 0 dropped
DispCanon(m) == [c \in {a \in DOMAIN m : m[a] # 0} |-> m[c]]

RECURSIVE DrawRow_or(_, _, _, _, _, _, _)
\* inner loop that ORs the sprite bit onto the cell
DrawRow_or(j, i, x, y, rows, disp, collide) ==
  IF j = 8 THEN [display |-> disp, collide |-> collide]
  ELSE LET d == d_idx(i, j, x, y)
           b == sprt_bit(rows, i, j)
       IN IF DispAt(disp, d) = 1 /\ b = 1
          THEN DrawRow_or(j + 1, i, x, y, rows,
                          Store(disp, d, BitOr(DispAt(disp, d), b)), 1)
          ELSE DrawRow_or(j + 1, i, x, y, rows,
                          Store(disp, d, BitOr(DispAt(disp, d), b)), collide)

RECURSIVE DrawRow(_, _, _, _, _, _, _)
\* the inner loop of DRW, from column j on, for sprite row i
DrawRow(j, i, x, y, rows, disp, collide) ==
  IF j = 8 THEN [display |-> disp, collide |-> collide]
  ELSE LET d == d_idx(i, j, x, y)
           b == sprt_bit(rows, i, j)
       IN IF DispAt(disp, d) = 1 /\ b = 1
          THEN DrawRow(j + 1, i, x, y, rows,
                       Store(disp, d, BitXor(DispAt(disp, d), b)), 1)
          ELSE DrawRow(j + 1, i, x, y, rows,
                       Store(disp, d, BitXor(DispAt(disp, d), b)), collide)

RECURSIVE DrawLoop(_, _, _, _, _, _, _)
\* the outer loop of DRW, from sprite row i on
DrawLoop(i, n, x, y, rows, disp, collide) ==
  IF i = n THEN [display |-> disp, collide |-> collide]
  ELSE LET r == DrawRow(0, i, x, y, rows, disp, collide)
       IN DrawLoop(i + 1, n, x, y, rows, r.display, r.collide)

\* indexes I + i that an instruction uses for i in 0..(cnt - 1)
MemIdx(cnt) == {I + i : i \in 0..(cnt - 1)}

\* the bytes memory[I + i], i < cnt: a read past the array yields any byte
MemReads(cnt) ==
  LET oob == {i \in 0..(cnt - 1) : I + i >= MEM_SIZE}
  IN {[i \in 0..(cnt - 1) |-> IF i \in oob THEN g[i]
                               ELSE MemAt(memory, I + i)] :
        g \in [oob -> UBBytes]}

instr_DRW_Vx_Vy_n(opc, pc) ==
  LET n == BitAnd(opc, 15)
      x == V[op_x(opc)]
      y == V[op_y(opc)]
  IN {LET r == DrawLoop(0, n, x, y, rows, display, 0)
      IN [display |-> DispCanon(r.display), V |-> [V EXCEPT ![15] = r.collide],
          ub |-> (MemIdx(n) \ (0..(MEM_SIZE - 1)) # {}),
          status |-> "EML_REDRAW"] : rows \in MemReads(n)}

instr_SKP_Vx(opc, pc) ==
  {[PC |-> IF pressed THEN U16(pc + 2) ELSE pc, ub |-> (V[op_x(opc)] >= 31),
    status |-> "EML_OK"] : pressed \in keypad_is_pressed(V[op_x(opc)])}

instr_SKNP_Vx(opc, pc) ==
  {[PC |-> IF ~pressed THEN U16(pc + 2) ELSE pc, ub |-> (V[op_x(opc)] >= 31),
    status |-> "EML_OK"] : pressed \in keypad_is_pressed(V[op_x(opc)])}

instr_LD_Vx_DT(opc, pc) ==
  {[V |-> [V EXCEPT ![op_x(opc)] = DT], status |-> "EML_OK"]}

instr_LD_Vx_K(opc, pc) ==
  IF last_key = C8K_NONE
  THEN {[key_waiting |-> TRUE, status |-> "EML_OK"]}
  ELSE {[V |-> [V EXCEPT ![op_x(opc)] = U8(last_key)],
         last_key |-> C8K_NONE, status |-> "EML_OK"]}

instr_LD_DT_Vx(opc, pc) == {[DT |-> V[op_x(opc)], status |-> "EML_OK"]}

instr_LD_ST_Vx(opc, pc) == {[ST |-> V[op_x(opc)], status |-> "EML_OK"]}

\* ADD I that keeps I within the 12 address bits
instr_ADD_I_Vx_masked(opc, pc) ==
  LET I1 == (I + V[op_x(opc)]) % MEM_SIZE
  IN {[I |-> I1, V |-> [V EXCEPT ![15] = IF I1 > 4095 THEN 1 ELSE 0],
       status |-> "EML_OK"]}

instr_ADD_I_Vx(opc, pc) ==
  LET I1 == U16(I + V[op_x(opc)])
  IN {[I |-> I1, V |-> [V EXCEPT ![15] = IF I1 > 4095 THEN 1 ELSE 0],
       status |-> "EML_OK"]}

instr_LD_F_Vx(opc, pc) == {[I |-> U16(V[op_x(opc)] * 5), status |-> "EML_OK"]}

\* memory[idx] = val; a store past the array has no defined effect
MemStore(mem, idx, val) ==
  IF idx < MEM_SIZE THEN Put(mem, idx, val, ResetMemory(idx)) ELSE mem

\* LD B that stores vx / 10 as the tens digit, without the % 10
instr_LD_B_Vx_tens_unreduced(opc, pc) ==
  LET vx == V[op_x(opc)]
      m1 == MemStore(memory, I, vx \div 100)
      m2 == MemStore(m1, I + 1, vx \div 10)
      m3 == MemStore(m2, I + 2, vx % 10)
  IN {[memory |-> m3, ub |-> (MemIdx(3) \ (0..(MEM_SIZE - 1)) # {}),
       status |-> "EML_OK"]}

instr_LD_B_Vx(opc, pc) ==
  LET vx == V[op_x(opc)]
      m1 == MemStore(memory, I, vx \div 100)
      m2 == MemStore(m1, I + 1, (vx \div 10) % 10)
      m3 == MemStore(m2, I + 2, vx % 10)
  IN {[memory |-> m3, ub |-> (MemIdx(3) \ (0..(MEM_SIZE - 1)) # {}),
       status |-> "EML_OK"]}

RECURSIVE StoreLoop(_, _, _)
\* for (i = 0; i <= x; i++) memory[I+i] = V[i], from index i on
StoreLoop(i, x, mem) ==
  IF i > x THEN mem ELSE StoreLoop(i + 1, x, MemStore(mem, I + i, V[i]))

\* the store that leaves I behind the last cell written
instr_LD_I_Vx_multi_advancing(opc, pc) ==
  {[memory |-> StoreLoop(0, op_x(opc), memory),
    I |-> U16(I + op_x(opc) + 1),
    ub |-> (MemIdx(op_x(opc) + 1) \ (0..(MEM_SIZE - 1)) # {}),
    status |-> "EML_OK"]}

instr_LD_I_Vx_multi(opc, pc) ==
  {[memory |-> StoreLoop(0, op_x(opc), memory),
    ub |-> (MemIdx(op_x(opc) + 1) \ (0..(MEM_SIZE - 1)) # {}),
    status |-> "EML_OK"]}

instr_LD_Vx_I_multi(opc, pc) ==
  {[V |-> [i \in 0..15 |-> IF i <= op_x(opc) THEN rd[i] ELSE V[i]],
    ub |-> (MemIdx(op_x(opc) + 1) \ (0..(MEM_SIZE - 1)) # {}),
    status |-> "EML_OK"] : rd \in MemReads(op_x(opc) + 1)}

(* ------------------------------------------------------------------ *)
(* Dispatch: the switch of emulator_cycle.  A case whose inner switch *)
(* matches nothing has no break and runs on into the next case label. *)
(* ------------------------------------------------------------------ *)
case_0x1(opc, pc) == instr_JP_nnn(opc, pc)

case_0x9(opc, pc) == instr_SNE_Vx_Vy(opc, pc)

case_0xF(opc, pc) ==
  LET low == BitAnd(opc, 255)
  IN CASE low = 7 -> instr_LD_Vx_DT(opc, pc)
       [] low = 10 -> instr_LD_Vx_K(opc, pc)
       [] low = 21 -> instr_LD_DT_Vx(opc, pc)
       [] low = 24 -> instr_LD_ST_Vx(opc, pc)
       [] low = 30 -> instr_ADD_I_Vx(opc, pc)
       [] low = 41 -> instr_LD_F_Vx(opc, pc)
       [] low = 51 -> instr_LD_B_Vx(opc, pc)
       [] low = 85 -> instr_LD_I_Vx_multi(opc, pc)
       [] low = 101 -> instr_LD_Vx_I_multi(opc, pc)
       [] OTHER -> {[status |-> "EML_UNK_OPC"]}

case_0x0(opc, pc) ==
  LET low == BitAnd(opc, 255)
  IN CASE low = 224 -> instr_CLS(opc, pc)
       [] low = 238 -> instr_RET(opc, pc)
       [] OTHER -> case_0x1(opc, pc)

case_0x8(opc, pc) ==
  LET low == BitAnd(opc, 15)
  IN CASE low = 0 -> instr_LD_Vx_Vy(opc, pc)
       [] low = 1 -> instr_OR_Vx_Vy(opc, pc)
       [] low = 2 -> instr_AND_Vx_Vy(opc, pc)
       [] low = 3 -> instr_XOR_Vx_Vy(opc, pc)
       [] low = 4 -> instr_ADD_Vx_Vy(opc, pc)
       [] low = 5 -> instr_SUB_Vx_Vy(opc, pc)
       [] low = 6 -> instr_SHR_Vx__Vy(opc, pc)
       [] low = 7 -> instr_SUBN_Vx_Vy(opc, pc)
       [] low = 14 -> instr_SHL_Vx_Vy(opc, pc)
       [] OTHER -> case_0x9(opc, pc)

case_0xE(opc, pc) ==
  LET low == BitAnd(opc, 255)
  IN CASE low = 158 -> instr_SKP_Vx(opc, pc)
       [] low = 161 -> instr_SKNP_Vx(opc, pc)
       [] OTHER -> case_0xF(opc, pc)

Dispatch(opc, pc) ==
  LET top == op_top(opc)
  IN CASE top = 0 -> case_0x0(opc, pc)
       [] top = 1 -> case_0x1(opc, pc)
       [] top = 2 -> instr_CALL_nnn(opc, pc)
       [] top = 3 -> instr_SE_Vx_kk(opc, pc)
       [] top = 4 -> instr_SNE_Vx_kk(opc, pc)
       [] top = 5 -> instr_SE_Vx_Vy(opc, pc)
       [] top = 6 -> instr_LD_Vx_kk(opc, pc)
       [] top = 7 -> instr_ADD_Vx_kk(opc, pc)
       [] top = 8 -> case_0x8(opc, pc)
       [] top = 9 -> case_0x9(opc, pc)
       [] top = 10 -> instr_LD_I_nnn(opc, pc)
       [] top = 11 -> instr_JP_V0_nnn(opc, pc)
       [] top = 12 -> instr_RND_Vx_kk(opc, pc)
       [] top = 13 -> instr_DRW_Vx_Vy_n(opc, pc)
       [] top = 14 -> case_0xE(opc, pc)
       [] top = 15 -> case_0xF(opc, pc)

\* no Fx55 on record
NoStore == [at |-> -1, x |-> 0, V |-> [i \in 0..15 |-> 0]]

(* ------------------------------------------------------------------ *)
(* Entry points of the core                                           *)
(* ------------------------------------------------------------------ *)
Init ==
  /\ memory = <<>>
  /\ display = <<>>
  /\ V = [i \in 0..15 |-> 0]
  /\ SP = 0 /\ DT = 0 /\ ST = 0 /\ I = 0
  /\ stack = [i \in 0..(STACK_SIZE - 1) |-> 0]
  /\ PC = 512
  /\ opcode = 0 /\ prev_PC = 0 /\ keypad = 0
  /\ last_key = C8K_NONE
  /\ key_waiting = FALSE
  /\ brk_point = 0 /\ brk_point_set = FALSE
  /\ status = "none" /\ ret = "none" /\ ub = FALSE
  /\ phase = "init" /\ ncycles = 0 /\ calls = <<>> /\ shown = <<>>
  /\ rom = <<>> /\ stored = NoStore /\ held = {}
  /\ loop = [clock_speed |-> 1080, paused |-> FALSE, terminate |-> FALSE,
             cycle_n |-> 0, i |-> 0, at |-> "top",
             interrupted |-> FALSE, speed0 |-> 0, n0 |-> 0,
             iters |-> 0, ticks |-> 0, events |-> 0]

\* option -b of main
main_opt_b(addr) ==
  /\ phase = "init"
  /\ brk_point' = addr
  /\ brk_point_set' = TRUE
  /\ UNCHANGED <<cpuVars, opcode, prev_PC, keyVars, status, ret, ub, phase,
                 ncycles, calls, shown, rom, stored, held, loop>>

\* fread: byte k of the file goes to memory[RESERVED_MEM + k - 1], the whole
\* block in one call
LoadImage(image, mem) ==
  LET dst == {RESERVED_MEM + k - 1 : k \in 1..Len(image)}
      val(a) == IF a \in dst THEN image[a - RESERVED_MEM + 1] ELSE MemAt(mem, a)
  IN [a \in {b \in dst \cup DOMAIN mem : val(b) # ResetMemory(b)} |-> val(a)]

\* loader whose size test also rejects a file of exactly the maximum size
emulator_load_program_ge(image) ==
  /\ phase = "init"
  /\ rom' = image
  /\ stored' = NoStore
  /\ IF Len(image) >= MEM_SIZE - RESERVED_MEM
     THEN /\ phase' = "exit"
          /\ UNCHANGED memory
     ELSE /\ phase' = "run"
          /\ memory' = LoadImage(image, memory)
  /\ UNCHANGED <<display, V, SP, DT, ST, PC, I, stack, opcode, prev_PC,
                 keyVars, brkVars, status, ret, ub, ncycles, calls, shown,
                 held, loop>>

\* image: the bytes of the file
emulator_load_program(image) ==
  /\ phase = "init"
  /\ rom' = image
  /\ stored' = NoStore
  /\ IF Len(image) > MEM_SIZE - RESERVED_MEM
     THEN /\ phase' = "exit"
          /\ UNCHANGED memory
     ELSE /\ phase' = "run"
          /\ memory' = LoadImage(image, memory)
  /\ UNCHANGED <<display, V, SP, DT, ST, PC, I, stack, opcode, prev_PC,
                 keyVars, brkVars, status, ret, ub, ncycles, calls, shown,
                 held, loop>>

\* ticker that decrements without the test for 0
emulator_timer_dec_wrap ==
  /\ phase \in {"run", "halt"} /\ ~ub
  /\ ST' = U8(ST - 1)
  /\ DT' = U8(DT - 1)
  /\ phase' = IF phase = "halt" THEN "exit" ELSE phase
  /\ UNCHANGED <<memory, display, V, SP, PC, I, stack, opcode, prev_PC,
                 keyVars, brkVars, status, ret, ub, ncycles, calls, shown, rom, stored, held>>

\* called at the end of every pass of the main loop, the last pass (the
\* one a fault or the breakpoint ended) included
emulator_timer_dec ==
  /\ phase \in {"run", "halt"} /\ ~ub
  /\ ST' = IF ST > 0 THEN ST - 1 ELSE ST
  /\ DT' = IF DT > 0 THEN DT - 1 ELSE DT
  /\ phase' = IF phase = "halt" THEN "exit" ELSE phase
  /\ UNCHANGED <<memory, display, V, SP, PC, I, stack, opcode, prev_PC,
                 keyVars, brkVars, status, ret, ub, ncycles, calls, shown, rom, stored, held>>

\* a key-down that latches the key whether or not Fx0A is waiting
keypad_pressed_latching(key) ==
  /\ phase = "run" /\ ~ub
  /\ keypad' = U16(BitOr(keypad, Shl(1, key)))
  /\ last_key' = key /\ key_waiting' = FALSE
  /\ held' = held \cup {key}
  /\ UNCHANGED <<cpuVars, opcode, prev_PC, brkVars, status, ret, ub, phase,
                 ncycles, calls, shown, rom, stored, loop>>

keypad_pressed(key) ==
  /\ phase = "run" /\ ~ub
  /\ keypad' = U16(BitOr(keypad, Shl(1, key)))
  /\ IF key_waiting
     THEN last_key' = key /\ key_waiting' = FALSE
     ELSE UNCHANGED <<last_key, key_waiting>>
  /\ held' = held \cup {key}
  /\ UNCHANGED <<cpuVars, opcode, prev_PC, brkVars, status, ret, ub, phase,
                 ncycles, calls, shown, rom, stored, loop>>

keypad_released(key) ==
  /\ phase = "run" /\ ~ub
  /\ keypad' = U16(BitXor(keypad, Shl(1, key)))
  /\ held' = held \ {key}
  /\ UNCHANGED <<cpuVars, opcode, prev_PC, last_key, key_waiting, brkVars,
                 status, ret, ub, phase, ncycles, calls, shown, rom, stored, loop>>

\* breakpoint test against the advanced PC
brk_reached_post_advance(prev, pc) == brk_point_set /\ pc = brk_point

\* the breakpoint test at the end of emulator_cycle
brk_reached(prev, pc) == brk_point_set /\ prev = brk_point

\* history of the CALLs in progress, kept beside the machine
CallHistory(opc, d) ==
  IF op_top(opc) = 2 /\ d.status = "EML_OK" THEN Append(calls, <<PC, SP>>)
  ELSE IF op_top(opc) = 0 /\ BitAnd(opc, 255) = 238 /\ d.status = "EML_OK"
       THEN SubSeq(calls, 1, Len(calls) - 1)
       ELSE calls

\* history of the last Fx55, kept beside the machine: where it stored and
\* the registers it saw; dropped when a later instruction writes memory or I
StoreHistory(opc, d) ==
  IF op_top(opc) = 15 /\ BitAnd(opc, 255) = 85
  THEN [at |-> I, x |-> op_x(opc), V |-> V]
  ELSE IF Upd(d, "memory", memory) # memory \/ Upd(d, "I", I) # I
       THEN NoStore
       ELSE stored

\* a cycle that does not look at key_waiting
waits_for_key_ignored == FALSE

\* the test that opens emulator_cycle
waits_for_key == key_waiting

\* the test made on the first byte of the instruction only
pc_overflows_first_byte(pc) == pc >= MEM_SIZE

\* the two bytes at pc do not both lie in memory[]
pc_overflows(pc) == pc + 1 >= MEM_SIZE

emulator_cycle ==
  /\ phase = "run" /\ ~ub
  /\ IF waits_for_key
     THEN /\ ret' = "EML_OK"
          /\ status' = "none"
          /\ UNCHANGED <<cpuVars, opcode, prev_PC, last_key, key_waiting, ub,
                         calls, shown, stored>>
     ELSE IF pc_overflows(PC)
     THEN /\ ret' = "EML_PC_OVERFL"
          /\ status' = "none"
          /\ UNCHANGED <<cpuVars, opcode, prev_PC, last_key, key_waiting, ub,
                         calls, shown, stored>>
     ELSE \E opc \in {BitOr(Shl(MemAt(memory, PC), 8), MemAt(memory, PC + 1))},
             pc \in {U16(PC + 2)} :
            \E d \in Dispatch(opc, pc) :
               /\ opcode' = opc
               /\ prev_PC' = PC
               /\ memory' = Upd(d, "memory", memory)
               /\ display' = Upd(d, "display", display)
               /\ V' = Upd(d, "V", V)
               /\ SP' = Upd(d, "SP", SP)
               /\ DT' = Upd(d, "DT", DT)
               /\ ST' = Upd(d, "ST", ST)
               /\ PC' = Upd(d, "PC", pc)
               /\ I' = Upd(d, "I", I)
               /\ stack' = Upd(d, "stack", stack)
               /\ last_key' = Upd(d, "last_key", last_key)
               /\ key_waiting' = Upd(d, "key_waiting", key_waiting)
               /\ ub' = Upd(d, "ub", ub)
               /\ status' = d.status
               /\ ret' = IF brk_reached(PC, pc) THEN "EML_BRK_REACHED"
                         ELSE d.status
               /\ calls' = CallHistory(opc, d)
               /\ stored' = StoreHistory(opc, d)
               /\ shown' = display
  /\ UNCHANGED <<keypad, brkVars, rom, held>>

\* the results on which the main loop sets fault and terminate
Terminates(r) ==
  r \in {"EML_UNK_OPC", "EML_STACK_OVERFL", "EML_STACK_UNDERFL",
         "EML_BRK_REACHED"}

\* one emulator_cycle call of the main loop, of a run of at most limit calls
Cycle(limit) ==
  /\ ncycles < limit
  /\ emulator_cycle
  /\ phase' = IF Terminates(ret') THEN "halt" ELSE phase
  /\ ncycles' = ncycles + 1
  /\ UNCHANGED loop

\* one emulator_timer_dec call of the main loop
Tick == emulator_timer_dec /\ UNCHANGED loop

(* ------------------------------------------------------------------ *)
(* The single-file interpreter (src/src/chip8.c): the functions of    *)
(* its jump table where they differ from the handlers above, and      *)
(* chip8_cycle                                                        *)
(* ------------------------------------------------------------------ *)
chip8_b0(opc, pc) ==
  LET low == BitAnd(opc, 255)
  IN CASE low = 224 -> instr_CLS(opc, pc)
       [] low = 238 -> instr_RET(opc, pc)
       [] OTHER -> {[status |-> "EML_UNK_OPC"]}

chip8_b8(opc, pc) ==
  LET low == BitAnd(opc, 15)
  IN CASE low = 0 -> instr_LD_Vx_Vy(opc, pc)
       [] low = 1 -> instr_OR_Vx_Vy(opc, pc)
       [] low = 2 -> instr_AND_Vx_Vy(opc, pc)
       [] low = 3 -> instr_XOR_Vx_Vy(opc, pc)
       [] low = 4 -> instr_ADD_Vx_Vy(opc, pc)
       [] low = 5 -> instr_SUB_Vx_Vy(opc, pc)
       [] low = 6 -> instr_SHR_Vx__Vy(opc, pc)
       [] low = 7 -> instr_SUBN_Vx_Vy(opc, pc)
       [] low = 14 -> instr_SHL_Vx_Vy(opc, pc)
       [] OTHER -> {[status |-> "EML_UNK_OPC"]}

chip8_bE(opc, pc) ==
  LET low == BitAnd(opc, 255)
  IN CASE low = 158 -> instr_SKP_Vx(opc, pc)
       [] low = 161 -> instr_SKNP_Vx(opc, pc)
       [] OTHER -> {[status |-> "EML_UNK_OPC"]}

chip8_bF(opc, pc) ==
  LET low == BitAnd(opc, 255)
      x == op_x(opc)
  IN CASE low = 7 -> instr_LD_Vx_DT(opc, pc)
       [] low = 10 ->
            IF last_key = C8K_NONE
            THEN {[key_waiting |-> TRUE, status |-> "EML_WAIT_KEY"]}
            ELSE {[V |-> [V EXCEPT ![x] = U8(last_key)],
                   last_key |-> C8K_NONE, status |-> "EML_OK"]}
       [] low = 21 -> instr_LD_DT_Vx(opc, pc)
       [] low = 24 -> instr_LD_ST_Vx(opc, pc)
       [] low = 30 -> instr_ADD_I_Vx(opc, pc)
       [] low = 41 -> instr_LD_F_Vx(opc, pc)
       [] low = 51 -> instr_LD_B_Vx(opc, pc)
       [] low = 85 ->
            {[memory |-> StoreLoop(0, x, memory), I |-> U16(I + x + 1),
              ub |-> (MemIdx(x + 1) \ (0..(MEM_SIZE - 1)) # {}),
              status |-> "EML_OK"]}
       [] low = 101 ->
            {[V |-> [i \in 0..15 |-> IF i <= x THEN rd[i] ELSE V[i]],
              I |-> U16(I + x + 1),
              ub |-> (MemIdx(x + 1) \ (0..(MEM_SIZE - 1)) # {}),
              status |-> "EML_OK"] : rd \in MemReads(x + 1)}
       [] OTHER -> {[status |-> "EML_UNK_OPC"]}

\* the jump table, indexed by the top nibble
j_tbl1(opc, pc) ==
  LET top == op_top(opc)
  IN CASE top = 0 -> chip8_b0(opc, pc)
       [] top = 1 -> instr_JP_nnn(opc, pc)
       [] top = 2 -> instr_CALL_nnn(opc, pc)
       [] top = 3 -> instr_SE_Vx_kk(opc, pc)
       [] top = 4 -> instr_SNE_Vx_kk(opc, pc)
       [] top = 5 -> instr_SE_Vx_Vy(opc, pc)
       [] top = 6 -> instr_LD_Vx_kk(opc, pc)
       [] top = 7 -> instr_ADD_Vx_kk(opc, pc)
       [] top = 8 -> chip8_b8(opc, pc)
       [] top = 9 -> instr_SNE_Vx_Vy(opc, pc)
       [] top = 10 -> instr_LD_I_nnn(opc, pc)
       [] top = 11 -> instr_JP_V0_nnn(opc, pc)
       [] top = 12 -> instr_RND_Vx_kk(opc, pc)
       [] top = 13 -> instr_DRW_Vx_Vy_n(opc, pc)
       [] top = 14 -> chip8_bE(opc, pc)
       [] top = 15 -> chip8_bF(opc, pc)

\* prev_PC is assigned behind PC += 2, and the breakpoint is compared with it
chip8_cycle ==
  /\ phase = "run" /\ ~ub
  /\ IF key_waiting
     THEN /\ ret' = "EML_WAIT_KEY"
          /\ status' = "none"
          /\ UNCHANGED <<cpuVars, opcode, prev_PC, last_key, key_waiting, ub,
                         calls, shown, stored>>
     ELSE IF PC + 1 >= MEM_SIZE
     THEN /\ ret' = "EML_PC_OVERFL"
          /\ status' = "none"
          /\ UNCHANGED <<cpuVars, opcode, prev_PC, last_key, key_waiting, ub,
                         calls, shown, stored>>
     ELSE \E opc \in {BitOr(Shl(MemAt(memory, PC), 8), MemAt(memory, PC + 1))},
             pc \in {U16(PC + 2)} :
            \E d \in j_tbl1(opc, pc) :
               /\ opcode' = opc
               /\ prev_PC' = pc
               /\ memory' = Upd(d, "memory", memory)
               /\ display' = Upd(d, "display", display)
               /\ V' = Upd(d, "V", V)
               /\ SP' = Upd(d, "SP", SP)
               /\ DT' = Upd(d, "DT", DT)
               /\ ST' = Upd(d, "ST", ST)
               /\ PC' = Upd(d, "PC", pc)
               /\ I' = Upd(d, "I", I)
               /\ stack' = Upd(d, "stack", stack)
               /\ last_key' = Upd(d, "last_key", last_key)
               /\ key_waiting' = Upd(d, "key_waiting", key_waiting)
               /\ ub' = Upd(d, "ub", ub)
               /\ status' = d.status
               /\ ret' = IF brk_point_set /\ pc = brk_point
                         THEN "EML_BRK_REACHED"
                         ELSE d.status
               /\ calls' = CallHistory(opc, d)
               /\ stored' = StoreHistory(opc, d)
               /\ shown' = display
  /\ UNCHANGED <<keypad, brkVars, rom, held>>

\* one chip8_cycle call of the single-file main loop
chip8_main_cycle(limit) ==
  /\ ncycles < limit
  /\ chip8_cycle
  /\ phase' = IF Terminates(ret') THEN "halt" ELSE phase
  /\ ncycles' = ncycles + 1
  /\ UNCHANGED loop

(* ------------------------------------------------------------------ *)
(* Inputs: program images, keys, breakpoint addresses                 *)
(* ------------------------------------------------------------------ *)
\* the opcode with nibbles a b c d
Op(a, b, c, d) == ((a * 16 + b) * 16 + c) * 16 + d

\* the bytes of a file holding the opcodes ops, big-endian
ImageOf(ops) ==
  [k \in 1..(2 * Len(ops)) |->
     IF k % 2 = 1 THEN ops[(k + 1) \div 2] \div 256 ELSE ops[k \div 2] % 256]

SeqsUpTo(S, n) == UNION {[1..k -> S] : k \in 1..n}

Keys == 1..MaxKey

BrkAddrs == {RESERVED_MEM + 2 * i : i \in 0..MaxBrk}

\* one opcode or more of every family, the unassigned ones included
OpcodeSample ==
  { Op(0,0,14,0), Op(0,0,14,14), Op(0,1,2,3),
    Op(1,15,15,15), Op(2,2,0,0),
    Op(3,0,0,0), Op(4,0,0,0), Op(5,0,1,0), Op(5,0,1,1),
    Op(6,0,0,7), Op(6,1,15,15), Op(7,1,0,1),
    Op(8,0,1,0), Op(8,0,1,8), Op(9,0,1,0), Op(9,0,1,1),
    Op(10,15,15,15), Op(11,15,15,15), Op(12,0,0,3), Op(13,0,0,1),
    Op(14,0,9,14), Op(14,0,10,1), Op(14,0,0,7), Op(14,0,0,0),
    Op(15,0,0,7), Op(15,1,0,10), Op(15,0,1,5), Op(15,0,1,8),
    Op(15,1,1,14), Op(15,0,2,9), Op(15,0,3,3), Op(15,1,5,5),
    Op(15,1,6,5), Op(15,0,15,15) }

\* instructions that set up what the sampled opcodes work on: V0, V1, I
\* at the last byte of memory, a key wait
SetupSample == {Op(6,0,0,7), Op(6,1,15,15), Op(10,15,15,15), Op(15,1,0,10)}

\* up to MaxSetupLen setup instructions, then one sampled opcode
Programs ==
  {s \o <<op>> : s \in {<<>>} \cup SeqsUpTo(SetupSample, MaxSetupLen),
                 op \in OpcodeSample}

Next ==
  \/ \E a \in BrkAddrs : main_opt_b(a)
  \/ \E ops \in Programs : emulator_load_program(ImageOf(ops))
  \/ Cycle(MaxCycles)
  \/ \E k \in Keys : keypad_pressed(k)
  \/ \E k \in Keys : keypad_released(k)
  \/ Tick

Spec == Init /\ [][Next]_vars

(* ------------------------------------------------------------------ *)
(* Stack programs: calls, returns and jumps                           *)
(* ------------------------------------------------------------------ *)
StackOpcodes ==
  { Op(2,2,0,0), Op(2,2,0,2), Op(2,2,0,4), Op(0,0,14,14), Op(1,2,0,0),
    Op(6,0,0,1), Op(15,0,15,15) }

StackPrograms == SeqsUpTo(StackOpcodes, MaxStackProgLen)

NextStack ==
  \/ \E a \in BrkAddrs : main_opt_b(a)
  \/ \E ops \in StackPrograms : emulator_load_program(ImageOf(ops))
  \/ Cycle(MaxStackCycles)

SpecStack == Init /\ [][NextStack]_vars

(* ------------------------------------------------------------------ *)
(* Flag programs: three register loads, then an instruction that      *)
(* documents a flag                                                   *)
(* ------------------------------------------------------------------ *)
ByteSample ==
  {v \in 0..255 : \/ v <= EdgeWidth
                  \/ v >= 255 - EdgeWidth
                  \/ (v >= 128 - EdgeWidth /\ v <= 128 + EdgeWidth)}

RegSample == {0, 1, 15}

\* 6xkk
LdOp(x, kk) == Op(6, x, kk \div 16, kk % 16)

ALUPrograms ==
  { <<LdOp(15, f), LdOp(x, a), LdOp(y, b), Op(8, x, y, n)>> :
      f \in {0, 85}, x \in RegSample, y \in RegSample,
      a \in ByteSample, b \in ByteSample, n \in {4, 5, 6, 7, 14} }

AddIPrograms ==
  { <<LdOp(15, f), LdOp(x, a), Op(10, 15, 15, k), Op(15, x, 1, 14)>> :
      f \in {0, 85}, x \in RegSample, a \in ByteSample, k \in {0, 15} }

DrawPrograms ==
  { <<LdOp(15, f), LdOp(x, a), Op(13, x, y, 5), Op(13, x, y, 5)>> :
      f \in {0, 85}, x \in RegSample, y \in RegSample, a \in {0, 60} }

FlagPrograms == ALUPrograms \cup AddIPrograms \cup DrawPrograms

NextALU ==
  \/ \E ops \in FlagPrograms : emulator_load_program(ImageOf(ops))
  \/ Cycle(MaxALUCycles)

SpecALU == Init /\ [][NextALU]_vars

(* ------------------------------------------------------------------ *)
(* Draw programs: two coordinate loads, Annn, a Dxyn, then the same   *)
(* Dxyn again, a Dyxn or 00E0; sprite bytes follow the five opcodes   *)
(* ------------------------------------------------------------------ *)
DrawXs == {0, 2, 60, 250}
DrawYs == {0, 31, 250}
DrawHeights == {0, 1, 2, 15}
DrawRegs == {<<0, 1>>, <<0, 0>>, <<15, 1>>}
\* sprite bytes in the image, the font table
DrawAddrs == {RESERVED_MEM + 10, 0}
\* the last byte of memory: a sprite of two rows or more is read past it
EdgeAddrs == {MEM_SIZE - 1}
EdgeHeights == {0, 1, 2}
SpriteSample == {<<255, 129>>, <<0, 0>>}

\* the opcode nnn with top nibble a
OpN(a, nnn) == a * 4096 + nnn

\* the fifth opcode: the same Dxyn, the Dyxn, or 00E0
DrawFollowUp(r, n, k) ==
  CASE k = 1 -> Op(13, r[1], r[2], n)
    [] k = 2 -> Op(13, r[2], r[1], n)
    [] k = 3 -> Op(0, 0, 14, 0)

SpriteProgramsAt(addrs, heights) ==
  { [ops |-> <<LdOp(r[1], vx), LdOp(r[2], vy), OpN(10, addr),
               Op(13, r[1], r[2], n), DrawFollowUp(r, n, k)>>,
     data |-> sprite] :
      vx \in DrawXs, vy \in DrawYs, addr \in addrs, n \in heights,
      r \in DrawRegs, sprite \in SpriteSample, k \in 1..3 }

SpritePrograms ==
  SpriteProgramsAt(DrawAddrs, DrawHeights)
    \cup SpriteProgramsAt(EdgeAddrs, EdgeHeights)

NextDraw ==
  \/ \E p \in SpritePrograms :
        emulator_load_program(ImageOf(p.ops) \o p.data)
  \/ Cycle(MaxDrawCycles)

SpecDraw == Init /\ [][NextDraw]_vars

(* ------------------------------------------------------------------ *)
(* Timer programs: V0 and V1 loaded, then two instructions out of     *)
(* Fx15, Fx18, Fx07, their Ex.. twins and a register load             *)
(* ------------------------------------------------------------------ *)
TimerValues == {0, 1, MaxTimer}

TimerOpcodes ==
  { Op(15,0,1,5), Op(15,1,1,8), Op(15,2,0,7), Op(14,0,1,5), Op(14,1,1,8),
    Op(6,2,0,9) }

TimerPrograms ==
  { <<LdOp(0, a), LdOp(1, b), t1, t2>> :
      a \in TimerValues, b \in TimerValues,
      t1 \in TimerOpcodes, t2 \in TimerOpcodes }

NextTimer ==
  \/ \E ops \in TimerPrograms : emulator_load_program(ImageOf(ops))
  \/ Cycle(MaxTimerCycles)
  \/ Tick

SpecTimer == Init /\ [][NextTimer]_vars

(* ------------------------------------------------------------------ *)
(* Program files of every size around the largest one that fits: a    *)
(* short program, zero filling, and a marked last byte                *)
(* ------------------------------------------------------------------ *)
max_prg_size == MEM_SIZE - RESERVED_MEM

LoadHeads ==
  { <<>>, ImageOf(<<Op(0,0,14,0)>>), ImageOf(<<Op(1,2,0,0)>>),
    ImageOf(<<Op(6,0,0,7), Op(10,1,2,3)>>), ImageOf(<<Op(0,0,14,14)>>),
    ImageOf(<<Op(2,2,0,2), Op(0,0,14,14)>>) }

LoadSizes ==
  (0..MaxShortFile) \cup ((max_prg_size - 1)..(max_prg_size + MaxOverrun))

LastBytes == {0, 170}

\* the file of the given size that starts with head and ends with last
SizedImage(head, size, last) ==
  [k \in 1..size |-> IF k <= Len(head) THEN head[k]
                     ELSE IF k = size THEN last ELSE 0]

LoadImages ==
  { SizedImage(h, n, b) : h \in LoadHeads, n \in LoadSizes, b \in LastBytes }

NextLoad ==
  \/ \E image \in LoadImages : emulator_load_program(image)
  \/ Cycle(MaxLoadCycles)

SpecLoad == Init /\ [][NextLoad]_vars

(* ------------------------------------------------------------------ *)
(* Programs that run into the end of memory: V0 is loaded, a jump or  *)
(* call leads to the last cells, where the last instruction of the    *)
(* largest file that fits lies; 0x204 holds a RET                     *)
(* ------------------------------------------------------------------ *)
EndV0s == {0, 1, 255}

EndJumps ==
  { Op(1,15,15,14), Op(1,15,15,15), Op(11,15,15,14), Op(11,15,15,15),
    Op(2,15,15,14), Op(1,15,15,13) }

EndTails ==
  { Op(3,0,0,0), Op(4,0,0,0), Op(0,0,14,14), Op(2,2,0,4), Op(6,0,0,1),
    Op(1,15,15,15), Op(0,0,14,0) }

\* the file of max_prg_size bytes with head first and tail last
EndImage(head, tail) ==
  [k \in 1..max_prg_size |->
     IF k <= Len(head) THEN head[k]
     ELSE IF k > max_prg_size - Len(tail) THEN tail[k - (max_prg_size - Len(tail))]
     ELSE 0]

EndImages ==
  { EndImage(ImageOf(<<LdOp(0, v), j, Op(0,0,14,14)>>), ImageOf(<<t>>)) :
      v \in EndV0s, j \in EndJumps, t \in EndTails }

NextEnd ==
  \/ \E image \in EndImages : emulator_load_program(image)
  \/ Cycle(MaxEndCycles)

SpecEnd == Init /\ [][NextEnd]_vars

(* ------------------------------------------------------------------ *)
(* The engine under a client that keeps calling emulator_cycle        *)
(* whatever the call returned                                         *)
(* ------------------------------------------------------------------ *)
EngineOpcodes ==
  { Op(15,0,15,15), Op(0,0,14,14), Op(2,2,0,0), Op(1,15,15,15),
    Op(6,0,0,7), Op(0,0,14,0), Op(7,0,0,1), Op(10,1,2,3), Op(15,1,0,10) }

EnginePrograms == SeqsUpTo(EngineOpcodes, MaxEngineProgLen)

\* one emulator_cycle call by the client
EngineCycle ==
  /\ ncycles < MaxEngineCycles
  /\ emulator_cycle
  /\ ncycles' = ncycles + 1
  /\ UNCHANGED <<phase, loop>>

NextEngine ==
  \/ \E a \in BrkAddrs : main_opt_b(a)
  \/ \E ops \in EnginePrograms : emulator_load_program(ImageOf(ops))
  \/ EngineCycle

SpecEngine == Init /\ [][NextEngine]_vars

(* ------------------------------------------------------------------ *)
(* Address-add loops: Vx is loaded, then Fx1E and a jump back to it   *)
(* run until I has passed 0xFFF and 0xFFFF                            *)
(* ------------------------------------------------------------------ *)
AddISteps == {255, 251}

AddILoops ==
  { <<LdOp(x, a), Op(15, x, 1, 14), Op(1, 2, 0, 2)>> :
      x \in {0, 1}, a \in AddISteps }

NextAddI ==
  \/ \E ops \in AddILoops : emulator_load_program(ImageOf(ops))
  \/ Cycle(MaxAddICycles)

SpecAddI == Init /\ [][NextAddI]_vars

(* ------------------------------------------------------------------ *)
(* BCD programs: every byte value in Vx, I on the font table, on the  *)
(* program itself, in free memory and on the last three cells         *)
(* ------------------------------------------------------------------ *)
BCDAddrs == {0, RESERVED_MEM, RESERVED_MEM + 256, MEM_SIZE - 3}

BCDPrograms ==
  { <<LdOp(x, v), OpN(10, a), Op(15, x, 3, 3)>> :
      x \in {0, 1}, v \in 0..255, a \in BCDAddrs }

NextBCD ==
  \/ \E ops \in BCDPrograms : emulator_load_program(ImageOf(ops))
  \/ Cycle(MaxBCDCycles)

SpecBCD == Init /\ [][NextBCD]_vars

(* ------------------------------------------------------------------ *)
(* The main loop with its pacing: option -c, the window events that   *)
(* change clock_speed, pause and quit, the for loop of cycle_n        *)
(* emulator_cycle calls and the ticker call that ends the iteration.  *)
(* loop.at is main's position: "top" (the while test), "for" (the for *)
(* test), "end" (behind the for loop).  The fields interrupted,       *)
(* speed0, n0, iters, ticks and events are history kept beside it.    *)
(* ------------------------------------------------------------------ *)
ClockSpeeds == {0, 59, 60, 130}

PaceEvents == {"none", "i", "u", "p", "quit"}

PacePrograms ==
  { <<Op(1,2,0,0)>>, <<Op(6,0,0,7), Op(0,0,14,14)>>,
    <<Op(6,0,0,7), Op(15,0,1,5), Op(15,0,1,8), Op(1,2,0,6)>> }

\* option -c
main_opt_c(speed) ==
  /\ phase = "init"
  /\ loop' = [loop EXCEPT !.clock_speed = speed]
  /\ UNCHANGED <<cpuVars, opcode, prev_PC, keyVars, brkVars, status, ret, ub,
                 phase, ncycles, calls, shown, rom, stored, held>>

\* event_handler on a key-up of i, u or p, or on a quit event; its result
\* is assigned to terminate
event_handler(e, l) ==
  IF e = "none" THEN l
  ELSE [l EXCEPT
          !.clock_speed = IF e = "i" THEN @ + 60
                          ELSE IF e = "u" /\ @ > 60 THEN @ - 60 ELSE @,
          !.paused = IF e = "p" THEN ~@ ELSE @,
          !.terminate = (e = "quit"),
          !.events = @ + 1]

\* the for test that reads clock_speed anew at every pass
for_continues_resampled(l) == l.i < l.clock_speed \div 60

\* i < cycle_n; fault leaves the loop where it is set
for_continues(l) == l.i < l.cycle_n

\* while (!terminate): the start of an iteration
main_while ==
  /\ phase = "run" /\ ~ub /\ loop.at = "top" /\ loop.iters < MaxIters
  /\ IF loop.terminate
     THEN /\ phase' = "exit"
          /\ UNCHANGED loop
     ELSE /\ loop' = [loop EXCEPT !.cycle_n = loop.clock_speed \div 60,
                                  !.i = 0, !.at = "for",
                                  !.interrupted = FALSE,
                                  !.speed0 = loop.clock_speed,
                                  !.n0 = ncycles, !.iters = @ + 1]
          /\ UNCHANGED phase
  /\ UNCHANGED <<cpuVars, opcode, prev_PC, keyVars, brkVars, status, ret, ub,
                 ncycles, calls, shown, rom, stored, held>>

\* one pass of the for loop: the test, the events, the pause test, the
\* emulator_cycle call and the switch on its result
main_for ==
  /\ phase = "run" /\ ~ub /\ loop.at = "for"
  /\ IF ~for_continues(loop)
     THEN /\ loop' = [loop EXCEPT !.at = "end"]
          /\ UNCHANGED <<cpuVars, opcode, prev_PC, keyVars, brkVars, status,
                         ret, ub, phase, ncycles, calls, shown, rom, stored, held>>
     ELSE \E e \in IF loop.events < MaxEvents THEN PaceEvents ELSE {"none"} :
          \E l \in {event_handler(e, loop)} :
            IF l.paused
            THEN /\ loop' = [l EXCEPT !.at = "end", !.interrupted = TRUE]
                 /\ UNCHANGED <<cpuVars, opcode, prev_PC, keyVars, brkVars,
                                status, ret, ub, phase, ncycles, calls, shown,
                                rom, stored, held>>
            ELSE /\ emulator_cycle
                 /\ ncycles' = ncycles + 1
                 /\ IF Terminates(ret')
                    THEN /\ phase' = "halt"
                         /\ loop' = [l EXCEPT !.i = @ + 1, !.at = "end",
                                              !.terminate = TRUE,
                                              !.interrupted = TRUE]
                    ELSE /\ phase' = phase
                         /\ loop' = [l EXCEPT !.i = @ + 1]

\* the emulator_timer_dec call that ends the iteration
main_tick ==
  /\ loop.at = "end"
  /\ emulator_timer_dec
  /\ loop' = [loop EXCEPT !.at = "top", !.ticks = @ + 1]

NextPace ==
  \/ \E c \in ClockSpeeds : main_opt_c(c)
  \/ \E ops \in PacePrograms : emulator_load_program(ImageOf(ops))
  \/ main_while
  \/ main_for
  \/ main_tick

SpecPace == Init /\ [][NextPace]_vars

(* ------------------------------------------------------------------ *)
(* Store/load programs: V0 and V1 are loaded, I is set, Fx55 stores,  *)
(* one instruction writes a register, I or memory, and Fx65 loads     *)
(* ------------------------------------------------------------------ *)
\* <<I, x>> of the Fx55: the font table, free memory, the last cells of
\* memory, and one store that runs past them
StoreCases ==
  { <<0, 0>>, <<RESERVED_MEM + 256, 1>>, <<RESERVED_MEM + 256, 15>>,
    <<MEM_SIZE - 2, 1>>, <<MEM_SIZE - 1, 0>>, <<MEM_SIZE - 1, 1>> }

\* what runs between the store and the load
StoreBetween ==
  { LdOp(0, 0), LdOp(1, 170), Op(7,0,0,1), Op(8,0,1,0), Op(12,0,15,15),
    Op(15,0,0,7), OpN(10, 0), Op(15,0,3,3) }

\* the x of the Fx65: 0, 1, or that of the Fx55
StoreLoads == {"0", "1", "same"}

StorePrograms ==
  { <<LdOp(0, a), LdOp(1, 34), OpN(10, c[1]), Op(15, c[2], 5, 5), w,
      Op(15, (CASE y = "0" -> 0 [] y = "1" -> 1 [] OTHER -> c[2]), 6, 5)>> :
      a \in {17, 255}, c \in StoreCases, w \in StoreBetween, y \in StoreLoads }

NextStore ==
  \/ \E ops \in StorePrograms : emulator_load_program(ImageOf(ops))
  \/ Cycle(MaxStoreCycles)

SpecStore == Init /\ [][NextStore]_vars

(* ------------------------------------------------------------------ *)
(* The single-file interpreter on the programs, keys and breakpoints  *)
(* of Spec                                                            *)
(* ------------------------------------------------------------------ *)
NextSingle ==
  \/ \E a \in BrkAddrs : main_opt_b(a)
  \/ \E ops \in Programs : emulator_load_program(ImageOf(ops))
  \/ chip8_main_cycle(MaxCycles)
  \/ \E k \in Keys : keypad_pressed(k)
  \/ \E k \in Keys : keypad_released(k)
  \/ Tick

SpecSingle == Init /\ [][NextSingle]_vars

(* ------------------------------------------------------------------ *)
(* Vocabulary of the properties                                       *)
(* ------------------------------------------------------------------ *)
\* the step is an emulator_cycle call
CycleStep == ncycles' = ncycles + 1

\* an emulator_cycle call made in this state fetches an instruction
Fetches == ~key_waiting /\ PC + 1 < MEM_SIZE

\* the step is an emulator_cycle call that fetched and dispatched opcode'
ExecStep == CycleStep /\ Fetches

IsFx0A(opc) == op_top(opc) = 15 /\ op_kk(opc) = 10

\* the last instruction executed is an Fx0A that found no key, a key-down
\* has been delivered since and no cycle has fetched since
KeyDelivered == IsFx0A(opcode) /\ ~key_waiting /\ last_key # C8K_NONE

\* opcodes that match no row of the instruction table
IsUnknownOpcode(opc) ==
  \/ op_top(opc) = 0 /\ opc \notin {Op(0,0,14,0), Op(0,0,14,14)}
  \/ op_top(opc) \in {5, 9} /\ op_n(opc) # 0
  \/ op_top(opc) = 8 /\ op_n(opc) \in {8, 9, 10, 11, 12, 13, 15}
  \/ op_top(opc) = 14 /\ op_kk(opc) \notin {158, 161}
  \/ op_top(opc) = 15 /\ op_kk(opc) \notin {7, 10, 21, 24, 30, 41, 51, 85, 101}

\* indexes of memory[] that Fx33 and Fx55 store to, with I as it is now
MemWrites(opc) ==
  IF op_top(opc) = 15 /\ op_kk(opc) = 51 THEN MemIdx(3)
  ELSE IF op_top(opc) = 15 /\ op_kk(opc) = 85 THEN MemIdx(op_x(opc) + 1)
  ELSE {}

IsCALL(opc) == op_top(opc) = 2

\* the first inner switch sends every 0nEE to instr_RET
IsRET(opc) == op_top(opc) = 0 /\ op_kk(opc) = 238

\* slots of stack[] that CALL (stack[SP++]) and RET (stack[--SP]) index,
\* with SP as it is now
StackAccess(opc) ==
  IF IsCALL(opc) /\ SP # STACK_SIZE THEN {SP}
  ELSE IF IsRET(opc) /\ SP # 0 THEN {SP - 1}
  ELSE {}

\* the cycle fetches its instruction from the configured breakpoint address
BrkCycle == Fetches /\ brk_point_set /\ PC = brk_point

\* the registers and arrays of struct chip8 after the step are those that
\* the handler of opc leaves when it runs on the state before the step
HandlerEffect(opc) ==
  \E d \in Dispatch(opc, U16(PC + 2)) :
     /\ memory' = Upd(d, "memory", memory)
     /\ display' = Upd(d, "display", display)
     /\ V' = Upd(d, "V", V)
     /\ SP' = Upd(d, "SP", SP)
     /\ DT' = Upd(d, "DT", DT)
     /\ ST' = Upd(d, "ST", ST)
     /\ PC' = Upd(d, "PC", U16(PC + 2))
     /\ I' = Upd(d, "I", I)
     /\ stack' = Upd(d, "stack", stack)

\* the 8xyN instructions of a step whose x and y satisfy the arguments
IsALU(opc, ns) == op_top(opc) = 8 /\ op_n(opc) \in ns

FlagOf(b) == IF b THEN 1 ELSE 0

IsDRW(opc) == op_top(opc) = 13

\* bit (7-j) of memory[I+i]
SpriteBit(i, j) == (MemAt(memory, I + i) \div Pow2(7 - j)) % 2

\* pixels <<i, j>> of a sprite of n rows whose bit is set
SetPixels(n) ==
  {q \in (0..(n - 1)) \X (0..7) : SpriteBit(q[1], q[2]) = 1}

\* the display cell of pixel q of a sprite drawn at (vx, vy):
\* row (vy+i) mod 32, column (vx+j) mod 64
CellOf(vx, vy, q) ==
  ((vy + q[1]) % DISP_H) * DISP_W + ((vx + q[2]) % DISP_W)

\* display cells onto which an odd number of the pixels in set fall
FlipCells(vx, vy, set) ==
  LET cell == [q \in set |-> CellOf(vx, vy, q)]
  IN {c \in {cell[q] : q \in set} :
        Cardinality({q \in set : cell[q] = c}) % 2 = 1}

\* the step is an emulator_timer_dec call (in a specification without
\* key events)
TickStep == phase \in {"run", "halt"} /\ ncycles' = ncycles

Max0(v) == IF v > 0 THEN v ELSE 0

IsFx15(opc) == op_top(opc) = 15 /\ op_kk(opc) = 21
IsFx18(opc) == op_top(opc) = 15 /\ op_kk(opc) = 24

(* ------------------------------------------------------------------ *)
(* Properties                                                         *)
(* ------------------------------------------------------------------ *)

(* C1: key-wait completion.  When an Fx0A has started waiting and a     *)
(* key-down for key k has been delivered, the next emulator_cycle call  *)
(* completes that Fx0A: V[x] = k for its x, last_key is cleared and the *)
(* engine is not waiting.                                               *)
C1_KeyWaitCompletes ==
  [][(CycleStep /\ KeyDelivered)
       => /\ V'[op_x(opcode)] = last_key
          /\ last_key' = C8K_NONE
          /\ ~key_waiting']_vars

(* C2: key-wait program counter.  While the engine waits for a key, PC  *)
(* stays on the Fx0A that started the wait (PC = A = prev_PC); after    *)
(* the key event one cycle call re-executes that Fx0A, consumes the key *)
(* and leaves PC = A + 2.                                               *)
C2_KeyWaitKeepsPC ==
  /\ [](key_waiting => PC = prev_PC)
  /\ [][(CycleStep /\ KeyDelivered)
          => /\ opcode' = opcode
             /\ prev_PC' = prev_PC
             /\ last_key' = C8K_NONE
             /\ PC' = prev_PC + 2]_vars

(* C3: unknown-opcode fault.  A cycle that fetches an opcode matching   *)
(* no row of the instruction table returns EML_UNK_OPC and changes      *)
(* nothing of the machine but PC, which advances by 2.                  *)
C3_UnknownOpcodeFaults ==
  [][(ExecStep /\ IsUnknownOpcode(opcode'))
       => /\ ret' = "EML_UNK_OPC"
          /\ PC' = PC + 2
          /\ UNCHANGED <<memory, display, V, SP, DT, ST, I, stack>>]_vars

(* C4: memory write bounds.  Every index of memory[] that an executed   *)
(* Fx33 or Fx55 stores to lies in 0..MEM_SIZE-1.                        *)
C4_MemoryWritesInBounds ==
  [][ExecStep => MemWrites(opcode') \subseteq 0..(MEM_SIZE - 1)]_vars

(* C5: breakpoint.  With a breakpoint configured at address A, an        *)
(* emulator_cycle call returns EML_BRK_REACHED exactly when it fetches   *)
(* its instruction from A (PC before the advance), and then the machine  *)
(* state holds the complete effect of that instruction: what its handler *)
(* leaves, e.g. V[x] = kk and PC = A+2 for a 6xkk, PC = nnn for a 1nnn,  *)
(* I = nnn for an Annn, the pushed A+2 for a 2nnn.                       *)
C5_BreakpointAfterInstruction ==
  [][CycleStep =>
       /\ (ret' = "EML_BRK_REACHED") <=> BrkCycle
       /\ BrkCycle =>
            /\ prev_PC' = brk_point
            /\ HandlerEffect(opcode')
            /\ op_top(opcode') = 6 =>
                 /\ V' = [V EXCEPT ![op_x(opcode')] = op_kk(opcode')]
                 /\ PC' = PC + 2
            /\ op_top(opcode') = 1 => PC' = op_nnn(opcode') /\ V' = V
            /\ op_top(opcode') = 10 =>
                 I' = op_nnn(opcode') /\ PC' = PC + 2
            /\ (op_top(opcode') = 2 /\ SP < STACK_SIZE) =>
                 /\ PC' = op_nnn(opcode') /\ SP' = SP + 1
                 /\ stack'[SP] = PC + 2]_vars

\* the breakpoint is on the second instruction, a 6xkk, and it has retired
C5_Witness ==
  /\ ret = "EML_BRK_REACHED" /\ phase = "halt"
  /\ prev_PC = brk_point /\ brk_point = RESERVED_MEM + 2
  /\ opcode = Op(6, 1, 15, 15) /\ V[1] = 255 /\ PC = RESERVED_MEM + 4

(* C6: stack discipline.  In every reachable state 0 <= SP <= 16; CALL   *)
(* and RET index stack slots 0..15 only; a 2nnn with SP < 16 succeeds    *)
(* (pushes PC+2, SP+1, jumps), a 2nnn with SP = 16 gives                 *)
(* EML_STACK_OVERFL and leaves SP and the stack alone, so 16 CALLs in a  *)
(* row from an empty stack succeed and the 17th fails; a 00EE with       *)
(* SP = 0 gives EML_STACK_UNDERFL.                                       *)
C6_StackDiscipline ==
  /\ [](SP \in 0..STACK_SIZE /\ DOMAIN stack = 0..(STACK_SIZE - 1))
  /\ [][ExecStep =>
          /\ StackAccess(opcode') \subseteq 0..(STACK_SIZE - 1)
          /\ (IsCALL(opcode') /\ SP < STACK_SIZE) =>
               /\ status' = "EML_OK"
               /\ SP' = SP + 1
               /\ stack' = [stack EXCEPT ![SP] = PC + 2]
               /\ PC' = op_nnn(opcode')
          /\ (IsCALL(opcode') /\ SP = STACK_SIZE) =>
               /\ status' = "EML_STACK_OVERFL"
               /\ UNCHANGED <<SP, stack>>
          /\ (IsCALL(opcode') /\ Len(calls) = ncycles /\ SP = Len(calls)) =>
               (status' = "EML_OK") <=> (ncycles < STACK_SIZE)
          /\ (IsRET(opcode') /\ SP = 0) =>
               /\ status' = "EML_STACK_UNDERFL"
               /\ UNCHANGED <<SP, stack>>
          /\ (IsRET(opcode') /\ SP > 0) =>
               /\ status' = "EML_OK"
               /\ SP' = SP - 1]_vars

\* the 17th CALL of a run of CALLs has failed on the full stack
C6_Witness ==
  /\ IsCALL(opcode) /\ status = "EML_STACK_OVERFL"
  /\ SP = STACK_SIZE /\ ncycles = STACK_SIZE + 1 /\ Len(calls) = STACK_SIZE

(* C7: CALL/RET round trip.  A successful 00EE returns to its matching   *)
(* 2nnn (the innermost CALL still open, whatever properly nested calls   *)
(* and returns ran in between): if that CALL was fetched from A with     *)
(* SP = s, the 00EE leaves PC = A+2 and SP = s.                          *)
C7_CallRetRoundTrip ==
  [][(ExecStep /\ IsRET(opcode') /\ status' = "EML_OK") =>
       /\ calls # <<>>
       /\ PC' = calls[Len(calls)][1] + 2
       /\ SP' = calls[Len(calls)][2]
       /\ calls' = SubSeq(calls, 1, Len(calls) - 1)]_vars

\* an outer CALL has returned after an inner CALL/RET pair ran inside it
C7_Witness ==
  /\ IsRET(opcode) /\ status = "EML_OK"
  /\ calls = <<>> /\ SP = 0 /\ ncycles = 4
  /\ PC = RESERVED_MEM + 2

(* C8: ADD, SUB, SUBN.  With a in Vx and b in Vy, x and y both other     *)
(* than 0xF: 8xy4 leaves Vx = (a+b) mod 256 and VF = 1 iff a+b > 255;    *)
(* 8xy5 leaves Vx = (a-b) mod 256 and VF = 1 iff a > b; 8xy7 leaves      *)
(* Vx = (b-a) mod 256 and VF = 1 iff a < b; VF is 0 otherwise and no     *)
(* other register changes.                                               *)
C8_AddSubSubn ==
  [][(/\ ExecStep /\ IsALU(opcode', {4, 5, 7})
      /\ op_x(opcode') # 15 /\ op_y(opcode') # 15) =>
       LET x == op_x(opcode')
           a == V[x]
           b == V[op_y(opcode')]
           n == op_n(opcode')
           r == CASE n = 4 -> (a + b) % 256
                  [] n = 5 -> (a - b) % 256
                  [] n = 7 -> (b - a) % 256
           f == CASE n = 4 -> a + b > 255
                  [] n = 5 -> a > b
                  [] n = 7 -> a < b
       IN /\ V' = [V EXCEPT ![x] = r, ![15] = FlagOf(f)]
          /\ status' = "EML_OK"]_vars

\* 8015 with V0 = 0 and V1 = 1 has borrowed: V0 = 255, VF = 0 over an old
\* VF of 85
C8_Witness ==
  /\ opcode = Op(8, 0, 1, 5) /\ ncycles = 4
  /\ V[0] = 255 /\ V[1] = 1 /\ V[15] = 0
  /\ MemAt(memory, RESERVED_MEM + 1) = 85

(* C9: shifts.  With a in Vx, x other than 0xF: 8xy6 leaves VF = a mod 2 *)
(* and Vx = a div 2; 8xyE leaves VF = bit 7 of a and Vx = (2*a) mod 256. *)
(* Vy takes no part: the results are functions of a alone and Vx and VF  *)
(* are the only registers written.                                       *)
C9_ShiftFlags ==
  [][(ExecStep /\ IsALU(opcode', {6, 14}) /\ op_x(opcode') # 15) =>
       LET x == op_x(opcode')
           a == V[x]
       IN /\ op_n(opcode') = 6 =>
               V' = [V EXCEPT ![x] = a \div 2, ![15] = a % 2]
          /\ op_n(opcode') = 14 =>
               V' = [V EXCEPT ![x] = (2 * a) % 256, ![15] = a \div 128]
          /\ status' = "EML_OK"]_vars

\* 801E with V0 = 129 and V1 = 255: bit 7 went to VF, V0 = 2, V1 is as it was
C9_Witness ==
  /\ opcode = Op(8, 0, 1, 14) /\ ncycles = 4
  /\ V[0] = 2 /\ V[15] = 1 /\ V[1] = 255

(* C10: flag register.  After every 8xy4, 8xy5, 8xy6, 8xy7, 8xyE, Dxyn   *)
(* and Fx1E, for every x and y in 0..15 (x = 0xF included), VF holds the *)
(* documented flag of the operands before the instruction (carry, not    *)
(* borrow, bit shifted out, collision, I past 0xFFF), so VF is 0 or 1.   *)
C10_FlagRegisterHoldsFlag ==
  [][ExecStep =>
       LET a == V[op_x(opcode')]
           b == V[op_y(opcode')]
           n == op_n(opcode')
       IN /\ IsALU(opcode', {4}) => V'[15] = FlagOf(a + b > 255)
          /\ IsALU(opcode', {5}) => V'[15] = FlagOf(a > b)
          /\ IsALU(opcode', {6}) => V'[15] = a % 2
          /\ IsALU(opcode', {7}) => V'[15] = FlagOf(a < b)
          /\ IsALU(opcode', {14}) => V'[15] = a \div 128
          /\ op_top(opcode') = 13 => V'[15] \in {0, 1}
          /\ (op_top(opcode') = 15 /\ op_kk(opcode') = 30) =>
               V'[15] = FlagOf(I + a > 4095)]_vars

(* C11: sprite draw.  A Dxyn with I+n <= 4096 XORs bit (7-j) of          *)
(* memory[I+i], for each row i < n and column j < 8, onto the pixel at   *)
(* row (Vy+i) mod 32, column (Vx+j) mod 64, each pixel wrapped on its    *)
(* own; every other pixel is unchanged; VF = 1 iff a set sprite bit fell *)
(* on a pixel that was set, else 0; nothing else changes but PC, and the *)
(* cycle reports EML_REDRAW.                                             *)
C11_SpriteDraw ==
  [][(ExecStep /\ IsDRW(opcode') /\ I + op_n(opcode') <= MEM_SIZE) =>
       \A vx \in {V[op_x(opcode')]}, vy \in {V[op_y(opcode')]},
          set \in {SetPixels(op_n(opcode'))} :
         \A flips \in {FlipCells(vx, vy, set)} :
           \A before \in {[c \in flips \cup DOMAIN display
                                  \cup DOMAIN display' |->
                             DispAt(display, c)]} :
             /\ \A c \in DOMAIN before :
                  DispAt(display', c) = IF c \in flips THEN 1 - before[c]
                                        ELSE before[c]
             /\ \A c \in (0..(DISP_SIZE - 1)) \ DOMAIN before :
                  DispAt(display', c) = DispAt(display, c)
             /\ V' = [V EXCEPT ![15] =
                        FlagOf(\E q \in set : before[CellOf(vx, vy, q)] = 1)]
             /\ status' = "EML_REDRAW"
             /\ ~BrkCycle => ret' = "EML_REDRAW"
             /\ PC' = PC + 2
             /\ UNCHANGED <<memory, I, SP, stack, DT, ST>>]_vars

\* the sprite FF 81 drawn at (60, 31): four columns of row 31 are on the
\* left edge, and its second row is on display line 0
C11_Witness ==
  /\ IsDRW(opcode) /\ ncycles = 4 /\ status = "EML_REDRAW"
  /\ V[0] = 60 /\ V[1] = 31 /\ V[15] = 0
  /\ \A c \in {31 * DISP_W + 63, 31 * DISP_W, 31 * DISP_W + 3, 60, 3} :
        DispAt(display, c) = 1
  /\ DispAt(display, 31 * DISP_W + 4) = 0 /\ DispAt(display, 0) = 0

\* a Dxyn on registers other than VF whose sprite lies inside memory and
\* has a set bit
PlainDraw(opc) ==
  /\ IsDRW(opc) /\ op_x(opc) # 15 /\ op_y(opc) # 15
  /\ I + op_n(opc) <= MEM_SIZE
  /\ SetPixels(op_n(opc)) # {}

(* C12: double draw.  On a cleared display, the same Dxyn executed twice *)
(* in a row (same I, same sprite bytes with a set bit, Vx and Vy in      *)
(* registers other than VF) leaves VF = 0 after the first draw, and      *)
(* after the second VF = 1 and the display all zero again.               *)
C12_DoubleDraw ==
  /\ [][(ExecStep /\ PlainDraw(opcode') /\ display = <<>>) =>
          V'[15] = 0 /\ display' # <<>>]_vars
  /\ [][(/\ ExecStep /\ PlainDraw(opcode')
         /\ opcode = opcode' /\ status = "EML_REDRAW" /\ shown = <<>>) =>
          /\ V[15] = 0
          /\ V'[15] = 1
          /\ \A c \in 0..(DISP_SIZE - 1) : DispAt(display', c) = 0]_vars

\* a sprite of 15 rows has been drawn twice: the display is clear again
C12_Witness ==
  /\ IsDRW(opcode) /\ op_n(opcode) = 15 /\ ncycles = 5
  /\ shown # <<>> /\ display = <<>> /\ V[15] = 1
  /\ V[0] = 60 /\ V[1] = 31

(* C13: display invariant.  In every reachable state, whatever 00E0 and  *)
(* Dxyn instructions have run (any I, Vx, Vy, n and sprite bytes), each  *)
(* of the 2048 display cells holds 0 or 1.                               *)
C13_DisplayCellsBinary ==
  /\ DOMAIN display \subseteq 0..(DISP_SIZE - 1)
  /\ \A c \in 0..(DISP_SIZE - 1) : DispAt(display, c) \in {0, 1}

\* a second sprite has been drawn over part of the first: some pixels
\* collided, others are lit
C13_Witness ==
  /\ IsDRW(opcode) /\ ncycles = 5 /\ V[15] = 1
  /\ shown # <<>> /\ display # <<>>

(* C14: timer ticker.  Each emulator_timer_dec call leaves               *)
(* DT = max(DT-1, 0) and ST = max(ST-1, 0), each on its own (0 stays 0), *)
(* and changes nothing else of the machine state.                        *)
C14_TimerTicker ==
  [][TickStep =>
       /\ DT' = Max0(DT - 1)
       /\ ST' = Max0(ST - 1)
       /\ UNCHANGED <<memory, display, V, SP, PC, I, stack, opcode, prev_PC,
                      keypad, last_key, key_waiting, brk_point,
                      brk_point_set>>]_vars

\* DT was loaded with 1 and ST with 3; a tick later DT is 0 and ST is 2
C14_Witness ==
  /\ opcode = Op(15, 1, 1, 8) /\ ncycles = 4
  /\ V[0] = 1 /\ V[1] = 3
  /\ MemAt(memory, RESERVED_MEM + 5) = 21
  /\ DT = 0 /\ ST = 2

(* C15: timers and cycles.  An emulator_cycle call changes DT only when  *)
(* it executes an Fx15 and ST only when it executes an Fx18, so cycles   *)
(* that execute neither, run between two ticker calls, leave the timers  *)
(* to the ticker alone.                                                  *)
C15_CyclesLeaveTimers ==
  [][CycleStep =>
       /\ DT' # DT => (Fetches /\ IsFx15(opcode'))
       /\ ST' # ST => (Fetches /\ IsFx18(opcode'))]_vars

\* the step is main's emulator_load_program call, reading the file rom'
LoadStep == phase = "init" /\ phase' # "init"

(* C16: loading a file of at most 3584 bytes (3584 included) succeeds,   *)
(* puts byte i of the file at memory[512 + i] and leaves memory[0..512)  *)
(* and memory[512 + len..4096) as they were; loading a longer file fails *)
(* and leaves the whole machine state as it was.                         *)
C16_ProgramLoader ==
  [][LoadStep =>
       \A len \in {Len(rom')} :
         IF len <= 3584
         THEN /\ phase' = "run"
              /\ \A i \in 0..(len - 1) : MemAt(memory', 512 + i) = rom'[i + 1]
              /\ \A a \in (0..511) \cup ((512 + len)..4095) :
                    MemAt(memory', a) = MemAt(memory, a)
         ELSE /\ phase' = "exit"
              /\ UNCHANGED <<cpuVars, opcode, prev_PC, keyVars, brkVars>>]_vars

\* a file of exactly 3584 bytes is loaded: its marked last byte is in the
\* last memory cell, the font table is in place
C16_Witness ==
  /\ phase = "run" /\ ncycles = 0
  /\ Len(rom) = 3584 /\ rom[3584] = 170
  /\ MemAt(memory, 4095) = 170 /\ MemAt(memory, 0) = 240

\* a file one byte too long was refused
C16_WitnessRefused ==
  phase = "exit" /\ ncycles = 0 /\ Len(rom) = 3585 /\ memory = <<>>

(* C17: an emulator_cycle call made when not waiting for a key and with  *)
(* PC + 1 >= 4096 returns the PC overflow status without fetching and    *)
(* leaves the machine, PC included, as it was; so a call that does fetch *)
(* reads both instruction bytes inside memory[0..4096), whichever jump,  *)
(* skip, return or Bnnn (nnn + V0, up to 0x10FE) set the PC.             *)
C17_PCOverflowGuard ==
  [][CycleStep =>
       /\ (~key_waiting /\ PC + 1 >= 4096) =>
            /\ ret' = "EML_PC_OVERFL" /\ status' = "none"
            /\ UNCHANGED <<cpuVars, opcode, prev_PC, keyVars, brkVars>>
       /\ status' # "none" =>
            /\ PC \in 0..4095 /\ PC + 1 \in 0..4095
            /\ opcode' = MemAt(memory, PC) * 256 + MemAt(memory, PC + 1)
            /\ prev_PC' = PC]_vars

\* the jump BFFF with V0 = 255 led to 0x10FE, and the next call reported
\* the overflow
C17_Witness ==
  /\ ret = "EML_PC_OVERFL" /\ PC = 4350 /\ opcode = Op(11,15,15,15)
  /\ ncycles >= 3

\* the instruction in the last two cells was run and its skip left the
\* PC at 4098, where the next call reported the overflow
C17_WitnessSkip ==
  ret = "EML_PC_OVERFL" /\ PC = 4098 /\ prev_PC = 4094

\* the four execution faults among emulator_cycle's results
ExecutionFaults ==
  {"EML_UNK_OPC", "EML_STACK_OVERFL", "EML_STACK_UNDERFL", "EML_PC_OVERFL"}

(* C18: when emulator_cycle returns one of the four execution faults     *)
(* (unknown opcode, stack overflow, stack underflow, PC overflow), the   *)
(* main loop sets terminate, and it makes no emulator_cycle call after a *)
(* call that returned one of them.                                       *)
C18_FaultsStopDriver ==
  [][CycleStep =>
       /\ ret \notin ExecutionFaults
       /\ ret' \in ExecutionFaults => phase' = "halt"]_vars

\* an unknown opcode, a stack overflow or a stack underflow has stopped
\* the main loop
C18_HandledFaultStops ==
  [][(CycleStep /\ ret' \in ExecutionFaults \ {"EML_PC_OVERFL"}) =>
        phase' = "halt"]_vars

(* C19: once emulator_cycle has returned a fault (unknown opcode, stack  *)
(* overflow, stack underflow or PC overflow), a later emulator_cycle     *)
(* call on the same emulator executes no instruction and leaves the      *)
(* machine state as it was; stated for the call that follows the         *)
(* faulting one, the first of the later calls.                           *)
C19_HaltedIsTerminal ==
  [][(CycleStep /\ ret \in ExecutionFaults) =>
        /\ status' = "none"
        /\ UNCHANGED <<cpuVars, opcode, prev_PC, keyVars, brkVars>>]_vars

\* the same for the PC overflow alone, which is the one fault that is
\* raised before the fetch
C19_PCOverflowRepeats ==
  [][(CycleStep /\ ret = "EML_PC_OVERFL") =>
        /\ ret' = "EML_PC_OVERFL"
        /\ UNCHANGED <<cpuVars, opcode, prev_PC, keyVars, brkVars>>]_vars

\* the machine states and handler results that a cycle fetching opc, with
\* pc the advanced PC, can end in when made in the current state
CycleOutcomes(opc, pc) ==
  { << Upd(d, "memory", memory), Upd(d, "display", display), Upd(d, "V", V),
       Upd(d, "SP", SP), Upd(d, "DT", DT), Upd(d, "ST", ST), Upd(d, "PC", pc),
       Upd(d, "I", I), Upd(d, "stack", stack), Upd(d, "last_key", last_key),
       Upd(d, "key_waiting", key_waiting), d.status >> :
      d \in Dispatch(opc, pc) }

IsRND(opc) == op_top(opc) = 12

(* C20: two emulators in the same machine state that are given the same  *)
(* cycle calls, ticker calls and key events, and execute no Cxkk, pass   *)
(* through the same states and return the same statuses: a cycle that    *)
(* executes an instruction other than Cxkk has one possible outcome (the *)
(* ticker, the key events and the cycles that do not fetch are functions *)
(* of the state).                                                        *)
C20_Determinism ==
  [][(ExecStep /\ ~IsRND(opcode')) =>
        Cardinality(CycleOutcomes(opcode', U16(PC + 2))) = 1]_vars

\* the same for the cycles that stay inside the arrays and shift the
\* keypad mask by less than the width of an int
C20_DeterminismInsideArrays ==
  [][(ExecStep /\ ~IsRND(opcode') /\ ~ub') =>
        Cardinality(CycleOutcomes(opcode', U16(PC + 2))) = 1]_vars

\* Cxkk is the one instruction with several outcomes inside the arrays
C20_RandomDraws ==
  [][(ExecStep /\ IsRND(opcode')) =>
        Cardinality(CycleOutcomes(opcode', U16(PC + 2))) = 1]_vars

\* bit k of the keypad bitmap
keypad_bit(k) == BitAnd(Shr(keypad, k), 1)

(* C21: after any sequence of key-down and key-up events, in any order   *)
(* (a key-up for a key whose bit is not set and repeated key-downs       *)
(* included), bit k of keypad is set exactly when the most recent event  *)
(* for key k was a key-down; after a key-up for k the bit is 0.          *)
C21_KeypadBitmap ==
  \A k \in 0..15 : (keypad_bit(k) = 1) <=> (k \in held)

\* a key-up for a key that is not down: the event changes the bitmap and
\* not the set of keys that are down
StrayKeyUp == held' = held /\ keypad' # keypad

\* the bitmap follows the keys as long as no key-up comes for a key that
\* is not down
C21_KeypadFollowsPairedEvents ==
  [][(C21_KeypadBitmap /\ ~StrayKeyUp) => C21_KeypadBitmap']_vars

(* C22: whenever key_waiting is true, emulator_cycle returns EML_OK,     *)
(* fetches nothing, makes no breakpoint check and leaves every field of  *)
(* the emulator (cpu state, opcode, prev_PC, keypad, last_key,           *)
(* key_waiting) as it was.                                               *)
C22_WaitingCyclesAreNoOps ==
  [][(CycleStep /\ key_waiting) =>
        /\ ret' = "EML_OK" /\ status' = "none"
        /\ UNCHANGED <<cpuVars, opcode, prev_PC, keyVars, brkVars>>]_vars

\* a waiting cycle has returned EML_OK although the breakpoint is set on
\* the address of the Fx0A that waits
C22_Witness ==
  /\ key_waiting /\ ret = "EML_OK" /\ status = "none" /\ ncycles >= 2
  /\ IsFx0A(opcode) /\ brk_point_set /\ brk_point = prev_PC

IsFx1E(opc) == op_top(opc) = 15 /\ op_kk(opc) = 30

(* C23: for every 16-bit I and every Vx with x other than 0xF, Fx1E      *)
(* leaves I' = (I + Vx) mod 65536 (I is not masked to 12 bits) and       *)
(* VF = 1 if I' > 0xFFF, else 0; no other register changes.              *)
C23_AddressAdd ==
  [][(ExecStep /\ IsFx1E(opcode') /\ op_x(opcode') # 15) =>
        /\ I' = (I + V[op_x(opcode')]) % 65536
        /\ V' = [V EXCEPT ![15] = IF I' > 4095 THEN 1 ELSE 0]
        /\ PC' = PC + 2
        /\ UNCHANGED <<SP, DT, ST, stack>>]_vars

\* the add has carried I past 0xFFFF: I is small again and VF is 0
C23_Witness ==
  /\ IsFx1E(opcode) /\ op_x(opcode) # 15 /\ PC = prev_PC + 2
  /\ I < V[op_x(opcode)] /\ V[15] = 0 /\ ncycles > 500

\* the add has carried I past 0xFFF: VF is 1 and I keeps its 13th bit
C23_WitnessPastMemory ==
  IsFx1E(opcode) /\ PC = prev_PC + 2 /\ I > 4095 /\ I < 4096 + 255 /\ V[15] = 1

IsFx33(opc) == op_top(opc) = 15 /\ op_kk(opc) = 51

(* C24: for every value v of Vx in 0..255 and every I <= 4093, Fx33      *)
(* writes memory[I] = v div 100, memory[I+1] = (v div 10) mod 10 and     *)
(* memory[I+2] = v mod 10 (157 gives 1, 5, 7) and changes no other       *)
(* memory byte, no register and not I.                                   *)
C24_BCD ==
  [][(ExecStep /\ IsFx33(opcode') /\ I <= 4093) =>
        \A v \in {V[op_x(opcode')]} :
          /\ MemAt(memory', I) = v \div 100
          /\ MemAt(memory', I + 1) = (v \div 10) % 10
          /\ MemAt(memory', I + 2) = v % 10
          /\ \A a \in (DOMAIN memory \cup DOMAIN memory') \ {I, I + 1, I + 2} :
                MemAt(memory', a) = MemAt(memory, a)
          /\ DOMAIN memory' \subseteq 0..4095
          /\ UNCHANGED <<V, I, SP, DT, ST, stack, display>>]_vars

\* 157 has been stored as 1, 5, 7 in the last three cells of memory
C24_Witness ==
  /\ IsFx33(opcode) /\ PC = prev_PC + 2 /\ V[op_x(opcode)] = 157
  /\ I = 4093
  /\ MemAt(memory, 4093) = 1 /\ MemAt(memory, 4094) = 5
  /\ MemAt(memory, 4095) = 7

\* the faults an instruction raises after it was fetched
InstructionFaults == {"EML_UNK_OPC", "EML_STACK_OVERFL", "EML_STACK_UNDERFL"}

(* C25: when emulator_cycle returns the unknown-opcode, stack-overflow   *)
(* or stack-underflow status for an instruction fetched from address A,  *)
(* PC is A + 2 at return (not A, not the call target) and SP, the stack, *)
(* V, I, memory, display, DT and ST are as before the cycle.             *)
C25_NoRollbackOnFault ==
  [][(CycleStep /\ ret' \in InstructionFaults) =>
        /\ prev_PC' = PC /\ PC' = PC + 2
        /\ UNCHANGED <<SP, stack, V, I, memory, display, DT, ST>>]_vars

\* the 17th CALL in a row has returned the stack overflow with the PC
\* behind the CALL and the stack full
C25_Witness ==
  /\ ret = "EML_STACK_OVERFL" /\ IsCALL(opcode) /\ SP = STACK_SIZE
  /\ PC = prev_PC + 2 /\ PC # op_nnn(opcode)

\* a RET on the empty stack has returned the underflow with the PC behind it
C25_WitnessUnderflow ==
  ret = "EML_STACK_UNDERFL" /\ IsRET(opcode) /\ SP = 0 /\ PC = prev_PC + 2

\* an unassigned opcode has returned the fault with the PC behind it
C25_WitnessUnknown ==
  ret = "EML_UNK_OPC" /\ opcode = Op(15,0,15,15) /\ PC = prev_PC + 2

\* the step is the ticker call that ends an iteration of the main loop
EndOfIteration == loop'.ticks = loop.ticks + 1

(* C26: in every iteration of the main loop that is neither paused nor   *)
(* cut short by a fault, main calls emulator_cycle exactly clock_speed   *)
(* div 60 times, clock_speed taken at the start of the iteration, and    *)
(* then calls emulator_timer_dec once; the ticker is called exactly once *)
(* per iteration whatever the number of cycles run.                      *)
C26_DriverPacing ==
  /\ [][(EndOfIteration /\ ~loop.interrupted) =>
           ncycles - loop.n0 = loop.speed0 \div 60]_vars
  /\ [][EndOfIteration => (loop.at = "end" /\ ncycles' = ncycles)]_vars
  /\ [](loop.ticks = IF loop.at = "top" THEN loop.iters ELSE loop.iters - 1)

\* an iteration that began at 130 Hz has ended after two cycles although
\* the clock was raised to 190 Hz while it ran
C26_Witness ==
  /\ loop.at = "top" /\ loop.ticks >= 1 /\ ~loop.interrupted
  /\ loop.speed0 = 130 /\ loop.clock_speed = 190 /\ ncycles - loop.n0 = 2

(* C27: for 8xF5 and 8xF7 (y = 0xF, x other than 0xF), with a in Vx and  *)
(* b the value VF held before the instruction, the stored result is      *)
(* (a - b) mod 256 for SUB and (b - a) mod 256 for SUBN: the difference  *)
(* is taken from the operands as read before the flag is written.        *)
C27_SubtractFromFlag ==
  [][(/\ ExecStep /\ IsALU(opcode', {5, 7})
      /\ op_y(opcode') = 15 /\ op_x(opcode') # 15) =>
       \A a \in {V[op_x(opcode')]}, b \in {V[15]} :
         V'[op_x(opcode')] = IF op_n(opcode') = 5 THEN (a - b) % 256
                             ELSE (b - a) % 256]_vars

\* what the code stores: the difference with the new flag as the operand
C27_SubtractsNewFlag ==
  [][(/\ ExecStep /\ IsALU(opcode', {5, 7})
      /\ op_y(opcode') = 15 /\ op_x(opcode') # 15) =>
       \A a \in {V[op_x(opcode')]}, b \in {V[15]} :
         /\ V'[15] = IF op_n(opcode') = 5 THEN FlagOf(a > b) ELSE FlagOf(a < b)
         /\ V'[op_x(opcode')] = IF op_n(opcode') = 5 THEN (a - V'[15]) % 256
                                ELSE (V'[15] - a) % 256]_vars

(* C28: in the single-file interpreter, with a breakpoint configured at  *)
(* address A, chip8_cycle returns EML_BRK_REACHED on the cycle that      *)
(* retires the instruction fetched from A, and not on the cycle of the   *)
(* instruction fetched from A - 2.                                       *)
C28_SingleFileBreakpoint ==
  [][CycleStep => ((ret' = "EML_BRK_REACHED") <=> BrkCycle)]_vars

\* what chip8_cycle compares with the breakpoint: the address behind the
\* instruction it has executed
C28_BreaksBehindInstruction ==
  [][CycleStep =>
       ((ret' = "EML_BRK_REACHED")
          <=> (Fetches /\ brk_point_set /\ PC + 2 = brk_point))]_vars

\* the nine fields of the machine that a cycle with handler delta d leaves
MachineAfter(d, pc) ==
  << Upd(d, "memory", memory), Upd(d, "display", display), Upd(d, "V", V),
     Upd(d, "I", I), Upd(d, "PC", pc), Upd(d, "SP", SP),
     Upd(d, "stack", stack), Upd(d, "DT", DT), Upd(d, "ST", ST) >>

\* what emulator_cycle resp. chip8_cycle can leave when either fetches opc
\* in the current state
ModularAfter(opc, pc) == {MachineAfter(d, pc) : d \in Dispatch(opc, pc)}

SingleFileAfter(opc, pc) == {MachineAfter(d, pc) : d \in j_tbl1(opc, pc)}

\* the key-wait fields the two handlers leave
KeyWaitAfter(d) ==
  <<Upd(d, "last_key", last_key), Upd(d, "key_waiting", key_waiting)>>

\* the opcodes on which the text of the two variants differs in what it
\* does to the machine: the unassigned opcodes of the families 0, 8, E and
\* F, and Fx55 and Fx65
VariantsDiffer(opc) ==
  \/ op_top(opc) = 0 /\ op_kk(opc) \notin {224, 238}
  \/ op_top(opc) = 8 /\ BitAnd(opc, 15) \notin (0..7) \cup {14}
  \/ op_top(opc) = 14 /\ op_kk(opc) \notin {158, 161}
  \/ op_top(opc) = 15 /\ op_kk(opc) \notin {7, 10, 21, 24, 30, 41, 51}

(* C29: the single-file interpreter and the modular interpreter implement *)
(* the same core: from the same machine state, with no Cxkk and no        *)
(* breakpoint, a chip8_cycle call leaves the memory, display, V, I, PC,   *)
(* SP, stack, DT and ST that an emulator_cycle call leaves, for every     *)
(* opcode (and a call that does not fetch leaves them as they are, as     *)
(* emulator_cycle does).                                                  *)
C29_VariantsAgree ==
  [][(CycleStep /\ ~brk_point_set) =>
        IF Fetches
        THEN IsRND(opcode') \/
             <<memory', display', V', I', PC', SP', stack', DT', ST'>>
                \in ModularAfter(opcode', U16(PC + 2))
        ELSE UNCHANGED cpuVars]_vars

\* the two variants agree on every opcode but the unassigned ones and
\* Fx55 and Fx65: there the handlers leave the same machines and the same
\* key-wait fields
C29_AgreeOnSharedOpcodes ==
  [][(ExecStep /\ ~VariantsDiffer(opcode')) =>
        \A pc \in {U16(PC + 2)} :
           /\ SingleFileAfter(opcode', pc) = ModularAfter(opcode', pc)
           /\ {KeyWaitAfter(d) : d \in j_tbl1(opcode', pc)}
                = {KeyWaitAfter(d) : d \in Dispatch(opcode', pc)}]_vars

\* on Fx55 and Fx65 the single-file variant leaves I advanced by x + 1
C29_SingleFileAdvancesI ==
  [][(ExecStep /\ op_top(opcode') = 15 /\ op_kk(opcode') \in {85, 101}) =>
        I' = U16(I + op_x(opcode') + 1)]_vars

IsFx55(opc) == op_top(opc) = 15 /\ op_kk(opc) = 85

IsFx65(opc) == op_top(opc) = 15 /\ op_kk(opc) = 101

(* C30: in the modular variant, with I + x < 4096, Fx55 writes            *)
(* memory[I+i] = V[i] for every i in 0..x and leaves I, every V register  *)
(* and all other memory unchanged; an Fx65 with the same x, executed      *)
(* later with I and memory not written in between, sets V[0..x] to the    *)
(* values stored, whatever the registers held meanwhile, and leaves I     *)
(* unchanged.                                                             *)
C30_StoreLoadRoundTrip ==
  [][/\ (ExecStep /\ IsFx55(opcode') /\ I + op_x(opcode') < MEM_SIZE) =>
          \A x \in {op_x(opcode')} :
            /\ \A i \in 0..x : MemAt(memory', I + i) = V[i]
            /\ \A a \in (DOMAIN memory \cup DOMAIN memory') \ (I..(I + x)) :
                  MemAt(memory', a) = MemAt(memory, a)
            /\ DOMAIN memory' \subseteq 0..(MEM_SIZE - 1)
            /\ UNCHANGED <<I, V>>
     /\ (/\ ExecStep /\ IsFx65(opcode') /\ I + op_x(opcode') < MEM_SIZE
         /\ stored.at = I /\ stored.x = op_x(opcode')) =>
          /\ \A i \in 0..stored.x : V'[i] = stored.V[i]
          /\ I' = I]_vars

\* V0 = 255 and V1 = 34 were stored in the last two cells of memory, V0 was
\* then loaded with 0, and F165 has brought 255 back
C30_Witness ==
  /\ IsFx65(opcode) /\ op_x(opcode) = 1 /\ PC = prev_PC + 2 /\ ncycles = 6
  /\ MemAt(memory, RESERVED_MEM + 8) = 96 /\ MemAt(memory, RESERVED_MEM + 9) = 0
  /\ stored.at = MEM_SIZE - 2 /\ stored.x = 1 /\ I = MEM_SIZE - 2
  /\ V[0] = 255 /\ V[1] = 34

\* the same after a random byte went to V0 between the store and the load
C30_WitnessRandom ==
  /\ IsFx65(opcode) /\ op_x(opcode) = 15 /\ PC = prev_PC + 2 /\ ncycles = 6
  /\ MemAt(memory, RESERVED_MEM + 8) = 192
  /\ stored.at = RESERVED_MEM + 256 /\ stored.x = 15
  /\ V[0] = 17 /\ V[1] = 34

(* C31: fault statuses are never masked: whenever the handler of the     *)
(* instruction executed in a cycle yields EML_UNK_OPC, EML_STACK_OVERFL  *)
(* or EML_STACK_UNDERFL, emulator_cycle returns that status, also when a *)
(* breakpoint is configured at the address of that instruction.          *)
C31_FaultsNeverMasked ==
  [][(ExecStep /\ status' \in InstructionFaults) => ret' = status']_vars

\* a fault is returned as it is when the breakpoint is elsewhere or unset,
\* and is replaced by EML_BRK_REACHED when the breakpoint is on the
\* instruction
C31_BreakpointMasksFault ==
  [][(ExecStep /\ status' \in InstructionFaults) =>
        ret' = IF BrkCycle THEN "EML_BRK_REACHED" ELSE status']_vars

\* the step is a key-down event: the key is held afterwards and no cycle ran
KeyDownStep == \E k \in 0..15 : held' = held \cup {k} /\ k \in held' /\ ncycles' = ncycles

(* C32: key-wait latch.  In every state reachable by any interleaving of  *)
(* cycle calls, key-down and key-up events, key_waiting = true implies    *)
(* last_key = C8K_NONE, and last_key is set to a key only by a key-down    *)
(* that arrives while key_waiting is true (and that ends the wait).       *)
C32_KeyWaitLatch ==
  /\ [](key_waiting => last_key = C8K_NONE)
  /\ [][(last_key' # last_key /\ last_key' # C8K_NONE) =>
          /\ key_waiting /\ ~key_waiting'
          /\ KeyDownStep
          /\ last_key' \in held'
          /\ BitAnd(keypad', Shl(1, last_key')) # 0]_vars

\* key 1 was latched by its key-down while Fx0A waited, and its key-up has
\* arrived before the next cycle
C32_Witness ==
  /\ IsFx0A(opcode) /\ last_key = 1 /\ ~key_waiting /\ held = {} /\ keypad = 0
  /\ ret = "EML_OK" /\ phase = "run"

\* Fx0A is waiting
C32_WitnessWaiting == key_waiting /\ last_key = C8K_NONE /\ held # {}

(* C33: a quit request is never lost: once event_handler has returned    *)
(* true for an event in an iteration of the main loop, terminate stays   *)
(* true whatever events are handled after it in that iteration, and the  *)
(* main loop exits at the end of the iteration.                          *)
C33_QuitNeverLost ==
  [][(phase = "run" /\ loop.terminate) =>
        /\ loop'.terminate
        /\ loop.at = "top" => phase' = "exit"]_vars

\* the while test ends the loop when terminate is true at the end of an
\* iteration
C33_TerminateExits ==
  [][(phase = "run" /\ loop.terminate /\ loop.at = "top") =>
        phase' = "exit"]_vars

(* C34: pause freezes the machine: while eml.paused is true, no step of  *)
(* the main loop changes memory, display, V, I, PC, SP, stack, DT or ST, *)
(* so that resuming continues from the state at which the pause began.   *)
C34_PauseFreezesMachine ==
  [][(phase = "run" /\ loop.paused /\ loop'.paused) => UNCHANGED cpuVars]_vars

\* while paused no instruction runs: everything but the two timers stays,
\* and the timers lose one per iteration until they are 0
C34_PauseStopsInstructions ==
  [][(phase = "run" /\ loop.paused /\ loop'.paused) =>
        /\ UNCHANGED <<memory, display, V, I, PC, SP, stack, ncycles>>
        /\ DT' = (IF loop.at = "end" /\ DT > 0 THEN DT - 1 ELSE DT)
        /\ ST' = (IF loop.at = "end" /\ ST > 0 THEN ST - 1 ELSE ST)]_vars

(* C35: live clock adjustment keeps the driver responsive: from any      *)
(* clock speed >= 60, the speed-up and slow-down events keep             *)
(* clock_speed div 60 >= 1, so that every iteration of the main loop     *)
(* begun afterwards runs at least one pass of the cycle loop.            *)
C35_ClockStaysResponsive ==
  [][(phase = "run" /\ loop.clock_speed >= 60) =>
        /\ loop'.clock_speed \div 60 >= 1
        /\ (loop.at = "top" /\ loop'.at = "for") => loop'.cycle_n >= 1]_vars

\* from a multiple of 60 the events lead to multiples of 60 that are no
\* less than 60
C35_MultiplesStayResponsive ==
  [][(phase = "run" /\ loop.clock_speed >= 60 /\ loop.clock_speed % 60 = 0) =>
        loop'.clock_speed >= 60 /\ loop'.clock_speed % 60 = 0]_vars

\* indexes of memory[] that Dxyn and Fx65 read their operand from, with I
\* as it is now
MemOperandReads(opc) ==
  IF op_top(opc) = 13 THEN MemIdx(BitAnd(opc, 15))
  ELSE IF IsFx65(opc) THEN MemIdx(op_x(opc) + 1)
  ELSE {}

(* C36: memory read bounds.  In every state reachable by any sequence of *)
(* cycle calls, the operand reads of an executed Dxyn (memory[I+i],      *)
(* i < n) and Fx65 (memory[I+i], i <= x) use only indexes in             *)
(* 0..MEM_SIZE-1, also after I was raised by Fx1E or set near 0xFFF by   *)
(* Annn.                                                                 *)
C36_MemoryReadsInBounds ==
  [][ExecStep => MemOperandReads(opcode') \subseteq 0..(MEM_SIZE - 1)]_vars

\* the reads stay inside the array as long as I + n resp. I + x + 1 does
\* not exceed MEM_SIZE, and the handlers make no test of their own: a read
\* is outside exactly when the cycle is marked as leaving the array
C36_ReadsFollowI ==
  [][(ExecStep /\ (op_top(opcode') = 13 \/ IsFx65(opcode'))) =>
        (ub' <=> ~(MemOperandReads(opcode') \subseteq 0..(MEM_SIZE - 1)))]_vars

====
